---- MODULE Spec2Model ----
(***************************************************************************)
(* Market-data synchronisation engine of the trading bot: the              *)
(* WebSocketManager class (connection lifecycle, reconnection, order-book, *)
(* candle and ticker reconstruction), translated handler by handler.       *)
(*                                                                         *)
(* Conventions.  A frame is modelled after JSON.parse: a record.  A JSON   *)
(* string that carries a number ("100") is kept as a string token and      *)
(* turned into a number by ParseFloat, as the code does.  A missing field  *)
(* is the token NoVal; a non-numeric parse result is NaN.  An array-valued *)
(* field is a record [arr, items] so that Array.isArray can be asked of it.*)
(* A topic string is kept as the sequence of its '.'-separated parts; the  *)
(* empty sequence is the missing (falsy) topic.                            *)
(***************************************************************************)
EXTENDS Integers, Sequences, FiniteSets, TLC

\* --------------------------------------------------------------- bounds
\* Largest exchange timestamp carried by an order-book frame, and largest
\* reading of Date.now().
MaxTs == 2
\* Sockets of one connection name that can exist at a time.
MaxSockets == 2

\* Bar timestamps run over 1..MaxBarTs.
MaxBarTs == 4
\* The candle cap (`klines.length > 100` in the code), scaled down so that a
\* series can be filled and overfilled.
KlineCap == 3
\* The most bars a historical load returns (the `limit` of 50 that
\* initConnections passes, below the cap as 50 is below 100), scaled alike.
HistLimit == 2
\* Levels a stored book may hold when one more frame that appends a
\* level on every delivery is let in.
MaxBookLevels == 2
\* Heartbeat probes followed on one socket.
MaxPings == 1
\* The longest symbol name, in characters, that topic strings are built for,
\* and the largest order-book depth.
MaxSymbolLen == 3
MaxDepth == 500

\* ------------------------------------------------------- configuration
\* The symbols initConnections is given, and config.timeframes.
SymbolList == <<"BTCUSDT", "ETHUSDT">>
TimeframeList == <<"1", "3">>
Symbols == {SymbolList[i] : i \in 1..Len(SymbolList)}
Timeframes == {TimeframeList[i] : i \in 1..Len(TimeframeList)}
SeriesKeys == Symbols \X Timeframes
ConnNames == {"public", "private"}
\* config.orderbook.depth, as it appears in the topic string
Depth == "50"

\* this.maxReconnectAttempts
maxReconnectAttempts == 10
\* this.reconnectDelay, in ms
reconnectDelay == 5000
\* Delays are kept as whole numbers of 1/DelayScale ms, so that
\* reconnectDelay * 1.5^n is exact for every n up to maxReconnectAttempts.
DelayScale == 2 ^ maxReconnectAttempts
\* the private topics subscribed after authentication
PrivateTopics == <<"execution", "position", "order">>

\* ------------------------------------------------------- JavaScript values
NoVal == "undefined"
NaN == 0 - 999999
\* undefined and null where a number is expected
Undef == 0 - 888888
Null == 0 - 777777

\* The numerals the model's frames carry, with their values.
Numeral ==
  [t \in {"0", "1", "2", "50", "52", "100", "101", "102", "103"} |->
     CASE t = "0" -> 0 [] t = "1" -> 1 [] t = "2" -> 2
       [] t = "50" -> 50 [] t = "52" -> 52
       [] t = "100" -> 100 [] t = "101" -> 101
       [] t = "102" -> 102 [] t = "103" -> 103]

\* parseFloat: the number a numeral denotes, NaN for anything else
\* (undefined, a word).
ParseFloat(tok) == IF tok \in DOMAIN Numeral THEN Numeral[tok] ELSE NaN

\* a === b on numbers: NaN equals nothing, itself included.
StrictEq(a, b) == a # NaN /\ b # NaN /\ a = b

\* JS truthiness of a string-or-missing field: missing and "" are falsy,
\* every non-empty string ("0" included) is truthy.
Truthy(tok) == tok # NoVal /\ tok # ""

Array(items) == [arr |-> TRUE, items |-> items]
NotArray == [arr |-> FALSE, items |-> <<>>]
IsArray(x) == x.arr

\* Array.prototype.sort with a comparator: stable; gt[i, j] is
\* "comparator(s[i], s[j]) > 0", s[i] has to come after s[j].  The element
\* at index i is preceded by the elements it has to come after and by the
\* earlier elements that do not have to come after it.
StableSort(s, gt) ==
  LET before[i \in 1..Len(s)] ==
        Cardinality({j \in 1..Len(s) : j # i /\ (gt[i, j] \/ (j < i /\ ~gt[j, i]))})
  IN [k \in 1..Len(s) |-> s[CHOOSE i \in 1..Len(s) : before[i] = k - 1]]

\* Array.prototype.findIndex on `price === price`: the first index, 0 when
\* there is none (indices are 1-based here, -1 in the code).
findIndexPrice(side, price) ==
  LET hit == {j \in 1..Len(side) : StrictEq(side[j].price, price)}
  IN IF hit = {} THEN 0 ELSE CHOOSE j \in hit : \A m \in hit : j <= m

\* ------------------------------------------------------------ the state
VARIABLES
  klinesDefined,     \* marketData.klines is an object (it is undefined at first)
  klines,            \* marketData.klines[symbol][timeframe], NoSeries when absent
  orderbooks,        \* marketData.orderbooks[symbol], NoBook when absent
  tickers,           \* marketData.tickers[symbol], NoTicker when absent
  emitted,           \* the events the last step emitted, in order
  lastMsg,           \* the frame the last step handled (see frameDigest), or NoMsg
  prevSize,          \* how many levels (bars) the store that frame addresses held before
  fed,               \* per series: the timestamps of the bars delivered so far
  escaped            \* an exception left the message handler in the last step

marketVars == <<klinesDefined, klines, orderbooks, tickers, emitted, lastMsg,
                prevSize, fed, escaped>>

VARIABLES
  hasCredentials,    \* config.api.apiKey and config.api.apiSecret are both set
  initPc,            \* where initConnections stands
  histIdx,           \* how many historical loads initConnections has awaited
  sockets,           \* per connection name and slot: the socket created there
  connections,       \* this.connections[name]: the slot of the socket, 0 if none
  reconnectAttempts, \* this.reconnectAttempts[name], Undef before the first connect
  reconnectTimers,   \* per name: the reconnect setTimeout calls that are pending
  pingTimeouts,      \* per name: the setInterval of setupPingInterval is running
  connected,         \* this.connected
  failRun,           \* per name: reconnects scheduled since a socket last opened
  exhaustions,       \* per name: closes of a never-opened socket that ended a run
                     \* of maxReconnectAttempts failed reconnects
  fatalSignals,      \* per name: fatal signals surfaced to the caller
  lastDelay,         \* per name: the delay of the reconnect timer set last, in
                     \* units of 1/DelayScale ms (0: none was set)
  shutdown           \* closeAll has been called

connVars == <<hasCredentials, initPc, histIdx, sockets, connections,
              reconnectAttempts, reconnectTimers, pingTimeouts, connected,
              failRun, exhaustions, fatalSignals, lastDelay, shutdown>>

vars == <<marketVars, connVars>>

NoBook == [exists |-> FALSE]
NoMsg == [op |-> "none", topic |-> <<>>]

\* A faulty upsert: a zero quantity wipes the whole side.
upsertLevel_wipe(side, price, quantity) ==
  IF StrictEq(quantity, 0) THEN <<>>
  ELSE Append(side, [price |-> price, quantity |-> quantity])

\* ------------------------------------------------- order-book reconstruction
\* One [price, quantity] pair of a delta: quantity 0 removes every level at
\* the price, anything else overwrites the first level at the price or
\* appends a new one.
upsertLevel(side, price, quantity) ==
  IF StrictEq(quantity, 0)
  THEN SelectSeq(side, LAMBDA b : ~StrictEq(b.price, price))
  ELSE LET index == findIndexPrice(side, price)
       IN IF index > 0
          THEN [side EXCEPT ![index].quantity = quantity]
          ELSE Append(side, [price |-> price, quantity |-> quantity])

\* The loop over data.b / data.a: entries shorter than two are skipped.
applyLevels(side, levels) ==
  LET run[i \in 0..Len(levels)] ==
        IF i = 0 THEN side
        ELSE IF Len(levels[i]) < 2 THEN run[i - 1]
        ELSE upsertLevel(run[i - 1], ParseFloat(levels[i][1]),
                         ParseFloat(levels[i][2]))
  IN run[Len(levels)]

\* bids.sort((a, b) => b.price - a.price)
sortBids(side) ==
  StableSort(side, [i \in 1..Len(side), j \in 1..Len(side) |->
                      side[i].price # NaN /\ side[j].price # NaN
                      /\ side[j].price - side[i].price > 0])

\* asks.sort((a, b) => a.price - b.price)
sortAsks(side) ==
  StableSort(side, [i \in 1..Len(side), j \in 1..Len(side) |->
                      side[i].price # NaN /\ side[j].price # NaN
                      /\ side[i].price - side[j].price > 0])

\* A faulty bid side: levels of quantity zero are stored like any other.
deltaBids_keepsZero(side, b) ==
  IF IsArray(b)
  THEN sortBids(side \o [i \in 1..Len(b.items) |->
                           [price |-> ParseFloat(b.items[i][1]),
                            quantity |-> ParseFloat(b.items[i][2])]])
  ELSE side

\* One side of a delta: untouched unless the field is an array.
deltaBids(side, b) == IF IsArray(b) THEN sortBids(applyLevels(side, b.items)) ELSE side
deltaAsks(side, a) == IF IsArray(a) THEN sortAsks(applyLevels(side, a.items)) ELSE side

\* data.b.map(bid => ({price: parseFloat(bid[0]), quantity: parseFloat(bid[1])}))
mapLevels(levels) ==
  [i \in 1..Len(levels) |->
     [price |-> ParseFloat(IF Len(levels[i]) >= 1 THEN levels[i][1] ELSE NoVal),
      quantity |-> ParseFloat(IF Len(levels[i]) >= 2 THEN levels[i][2] ELSE NoVal)]]

\* message.ts || data.ts || Date.now()   (0 is the missing timestamp)
frameTs(message, now) ==
  IF message.ts # 0 THEN message.ts
  ELSE IF message.data.ts # 0 THEN message.data.ts ELSE now

\* A faulty event: it carries the bids only.
orderbookEvent_bidsOnly(symbol, book) ==
  [name |-> "orderbook", symbol |-> symbol, data |-> [book EXCEPT !.asks = <<>>]]

orderbookEvent(symbol, book) == [name |-> "orderbook", symbol |-> symbol, data |-> book]

\* processOrderbookData: the stored books and the events emitted.
processOrderbookData(message, now) ==
  LET same == [orderbooks |-> orderbooks, emitted |-> <<>>] IN
  IF message.topic = <<>> \/ ~message.data.present THEN same
  ELSE IF Len(message.topic) < 3 THEN same
  ELSE LET symbol == message.topic[3]
           data == message.data
       IN IF message.type = "delta"
          THEN LET old == IF orderbooks[symbol].exists THEN orderbooks[symbol]
                          ELSE [exists |-> TRUE, symbol |-> symbol,
                                timestamp |-> frameTs(message, now),
                                bids |-> <<>>, asks |-> <<>>]
                   book == [old EXCEPT !.timestamp = frameTs(message, now),
                                       !.bids = deltaBids(old.bids, data.b),
                                       !.asks = deltaAsks(old.asks, data.a)]
               IN [orderbooks |-> [orderbooks EXCEPT ![symbol] = book],
                   emitted |-> <<orderbookEvent(symbol, book)>>]
          ELSE IF message.type = "snapshot"
          THEN IF ~IsArray(data.b) \/ ~IsArray(data.a) THEN same
               ELSE LET book == [exists |-> TRUE, symbol |-> symbol,
                                 timestamp |-> frameTs(message, now),
                                 bids |-> mapLevels(data.b.items),
                                 asks |-> mapLevels(data.a.items)]
                    IN [orderbooks |-> [orderbooks EXCEPT ![symbol] = book],
                        emitted |-> <<orderbookEvent(symbol, book)>>]
          ELSE same

\* --------------------------------------------------------- candle series
NoSeries == [exists |-> FALSE, bars |-> <<>>]

\* x || y || 0 handed to parseFloat: the first truthy token, else the number 0.
parseFloatOr0(x, y) ==
  IF Truthy(x) THEN ParseFloat(x) ELSE IF Truthy(y) THEN ParseFloat(y) ELSE 0

\* a number in a || chain: undefined, 0 and NaN are falsy.
NumTruthy(n) == n # Undef /\ n # 0 /\ n # NaN

\* formatKline: a V5 bar (it has `start`) keeps start as its timestamp and has
\* its fields parsed; any other object is read through the short field names
\* with 0 (and the current time) as defaults.
formatKline(kline, now) ==
  IF kline.start # Undef
  THEN [timestamp |-> kline.start,
        open |-> ParseFloat(kline.open), high |-> ParseFloat(kline.high),
        low |-> ParseFloat(kline.low), close |-> ParseFloat(kline.close),
        volume |-> ParseFloat(kline.volume),
        turnover |-> parseFloatOr0(kline.turnover, NoVal)]
  ELSE [timestamp |-> IF NumTruthy(kline.t) THEN kline.t
                      ELSE IF NumTruthy(kline.timestamp) THEN kline.timestamp
                      ELSE now,
        open |-> parseFloatOr0(kline.o, kline.open),
        high |-> parseFloatOr0(kline.h, kline.high),
        low |-> parseFloatOr0(kline.l, kline.low),
        close |-> parseFloatOr0(kline.c, kline.close),
        volume |-> parseFloatOr0(kline.v, kline.volume),
        turnover |-> parseFloatOr0(kline.V, kline.turnover)]

\* klines.findIndex(k => k.timestamp === t): first index, 0 for none.
findIndexTs(bars, t) ==
  LET hit == {j \in 1..Len(bars) : StrictEq(bars[j].timestamp, t)}
  IN IF hit = {} THEN 0 ELSE CHOOSE j \in hit : \A m \in hit : j <= m

\* One bar of a kline frame: replace the bar of the same timestamp where it
\* stands, or push the bar at the end.
upsertKline(bars, k) ==
  LET existingIndex == findIndexTs(bars, k.timestamp)
  IN IF existingIndex = 0 THEN Append(bars, k)
     ELSE [bars EXCEPT ![existingIndex] = k]

\* A faulty sort: the bars are left as they stand.
sortKlines_asIs(bars) == bars

\* klines.sort((a, b) => a.timestamp - b.timestamp)
sortKlines(bars) ==
  StableSort(bars, [i \in 1..Len(bars), j \in 1..Len(bars) |->
                      bars[i].timestamp # NaN /\ bars[j].timestamp # NaN
                      /\ bars[i].timestamp - bars[j].timestamp > 0])

\* if (klines.length > cap) klines.splice(0, klines.length - cap)
capKlines(bars) ==
  IF Len(bars) > KlineCap
  THEN SubSeq(bars, Len(bars) - KlineCap + 1, Len(bars))
  ELSE bars

klineEvent(symbol, timeframe, bars) ==
  [name |-> "kline", symbol |-> symbol, timeframe |-> timeframe, data |-> bars]

\* processKlineData.  The test of line 251 reads marketData.klines[symbol]:
\* while marketData.klines is undefined that read throws, the catch logs, and
\* nothing is stored or emitted.
processKlineData(message, now) ==
  LET same == [klines |-> klines, emitted |-> <<>>] IN
  IF message.topic = <<>> \/ ~message.data.present THEN same
  ELSE IF ~klinesDefined THEN same
  ELSE LET timeframe == message.topic[2]
           symbol == message.topic[3]
           data == message.data
           cur == klines[<<symbol, timeframe>>].bars
           all[i \in 0..Len(data.items)] ==
             IF i = 0 THEN cur
             ELSE upsertKline(all[i - 1], formatKline(data.items[i], now))
           merged == IF data.kind = "array" THEN all[Len(data.items)]
                     ELSE IF data.kind = "object"
                     THEN upsertKline(cur, formatKline(data.items[1], now))
                     ELSE cur
           bars == capKlines(sortKlines(merged))
       IN [klines |-> [klines EXCEPT ![<<symbol, timeframe>>] =
                                       [exists |-> TRUE, bars |-> bars]],
           emitted |-> <<klineEvent(symbol, timeframe, bars)>>]

\* fetchHistoricalKlines: `result` is what bybitApi.getKlines gave, a list of
\* bars or a failure (a throw, null, or an empty list); a failure is logged
\* and leaves everything as it was.
fetchHistoricalKlines(symbol, timeframe, result) ==
  IF ~result.ok \/ Len(result.list) = 0
  THEN [klinesDefined |-> klinesDefined, klines |-> klines, emitted |-> <<>>]
  ELSE LET bars == sortKlines(result.list)
       IN [klinesDefined |-> TRUE,
           klines |-> [klines EXCEPT ![<<symbol, timeframe>>] =
                                       [exists |-> TRUE, bars |-> bars]],
           emitted |-> <<klineEvent(symbol, timeframe, bars)>>]

\* ----------------------------------------------------------------- ticker
NoTicker == [exists |-> FALSE]

\* The record created for a symbol that has none (lines 655-668).
defaultTicker(symbol, now) ==
  [exists |-> TRUE, symbol |-> symbol, lastPrice |-> 0, highPrice24h |-> 0,
   lowPrice24h |-> 0, volume24h |-> 0, turnover24h |-> 0, price24hPcnt |-> 0,
   timestamp |-> now, bidPrice |-> Null, askPrice |-> Null,
   bidSize |-> Null, askSize |-> Null]

\* (bid + ask) / 2; the numerals of the model keep the sum even, so the
\* integer quotient is the exact value.
midPrice(bid, ask) == IF bid = NaN \/ ask = NaN THEN NaN ELSE (bid + ask) \div 2

\* A faulty derivation: one side alone is taken whatever price is stored.
deriveLastPrice_anySide(stored, data) ==
  IF Truthy(data.lastPrice) THEN ParseFloat(data.lastPrice)
  ELSE IF Truthy(data.bid1Price) /\ Truthy(data.ask1Price)
  THEN midPrice(ParseFloat(data.bid1Price), ParseFloat(data.ask1Price))
  ELSE IF Truthy(data.bid1Price) THEN ParseFloat(data.bid1Price)
  ELSE IF Truthy(data.ask1Price) THEN ParseFloat(data.ask1Price)
  ELSE stored

\* lastPrice after an update (lines 671-681): the explicit price; else the
\* midpoint of bid and ask; else, only while the stored price is 0, the one
\* side that is there; else the stored price.
deriveLastPrice(stored, data) ==
  IF Truthy(data.lastPrice) THEN ParseFloat(data.lastPrice)
  ELSE IF Truthy(data.bid1Price) /\ Truthy(data.ask1Price)
  THEN midPrice(ParseFloat(data.bid1Price), ParseFloat(data.ask1Price))
  ELSE IF StrictEq(stored, 0) /\ Truthy(data.bid1Price)
  THEN ParseFloat(data.bid1Price)
  ELSE IF StrictEq(stored, 0) /\ Truthy(data.ask1Price)
  THEN ParseFloat(data.ask1Price)
  ELSE stored

\* A faulty copy: a field the update lacks is set to 0.
copyField_zero(old, tok) == IF Truthy(tok) THEN ParseFloat(tok) ELSE 0

\* if (data.f) existingTicker.g = parseFloat(data.f)
copyField(old, tok) == IF Truthy(tok) THEN ParseFloat(tok) ELSE old

tickerEvent(symbol, ticker) == [name |-> "ticker", symbol |-> symbol, data |-> ticker]

\* processTickerData: the stored tickers and the events emitted.
processTickerData(message, now) ==
  LET same == [tickers |-> tickers, emitted |-> <<>>] IN
  IF message.topic = <<>> \/ ~message.data.present THEN same
  ELSE IF Len(message.topic) < 2 THEN same
  ELSE LET symbol == message.topic[2]
           data == message.data
           existingTicker == IF tickers[symbol].exists THEN tickers[symbol]
                             ELSE defaultTicker(symbol, now)
           ticker ==
             [existingTicker EXCEPT
                !.lastPrice = deriveLastPrice(existingTicker.lastPrice, data),
                !.highPrice24h = copyField(@, data.highPrice24h),
                !.lowPrice24h = copyField(@, data.lowPrice24h),
                !.volume24h = copyField(@, data.volume24h),
                !.turnover24h = copyField(@, data.turnover24h),
                !.price24hPcnt = copyField(@, data.price24hPcnt),
                !.bidPrice = copyField(@, data.bid1Price),
                !.askPrice = copyField(@, data.ask1Price),
                !.bidSize = copyField(@, data.bid1Size),
                !.askSize = copyField(@, data.ask1Size),
                !.timestamp = now]
       IN [tickers |-> [tickers EXCEPT ![symbol] = ticker],
           emitted |-> <<tickerEvent(symbol, ticker)>>]

\* ------------------------------------------------------- message dispatch
\* A faulty dispatch: a frame that has topic and data goes to the handler of
\* its topic class whatever its op says.
handlePublicMessage_dataFirst(message, now) ==
  LET same == [klines |-> klines, orderbooks |-> orderbooks,
               tickers |-> tickers, emitted |-> <<>>]
  IN IF message.topic = <<>> \/ ~message.data.present THEN same
     ELSE LET dataType == message.topic[1] IN
          IF dataType = "kline"
          THEN LET r == processKlineData(message, now)
               IN [same EXCEPT !.klines = r.klines, !.emitted = r.emitted]
          ELSE IF dataType = "orderbook"
          THEN LET r == processOrderbookData(message, now)
               IN [same EXCEPT !.orderbooks = r.orderbooks, !.emitted = r.emitted]
          ELSE IF dataType = "tickers"
          THEN LET r == processTickerData(message, now)
               IN [same EXCEPT !.tickers = r.tickers, !.emitted = r.emitted]
          ELSE same

\* handlePublicMessage after JSON.parse: pong and subscribe replies are
\* logged; a frame with topic and data goes to the handler of its topic
\* class; anything else is logged.
handlePublicMessage(message, now) ==
  LET same == [klines |-> klines, orderbooks |-> orderbooks,
               tickers |-> tickers, emitted |-> <<>>]
  IN IF message.op = "pong" \/ message.op = "subscribe" THEN same
     ELSE IF message.topic = <<>> \/ ~message.data.present THEN same
     ELSE LET dataType == message.topic[1] IN
          IF dataType = "kline"
          THEN LET r == processKlineData(message, now)
               IN [same EXCEPT !.klines = r.klines, !.emitted = r.emitted]
          ELSE IF dataType = "orderbook"
          THEN LET r == processOrderbookData(message, now)
               IN [same EXCEPT !.orderbooks = r.orderbooks, !.emitted = r.emitted]
          ELSE IF dataType = "tickers"
          THEN LET r == processTickerData(message, now)
               IN [same EXCEPT !.tickers = r.tickers, !.emitted = r.emitted]
          ELSE same

\* ------------------------------------------------------------ connections
NoSocket == [readyState |-> "NONE", opened |-> FALSE, awaited |-> FALSE,
             byTimer |-> FALSE, auth |-> "none", sent |-> <<>>]

\* The connection state as one record, so that a handler's calls compose.
connState ==
  [sockets |-> sockets, connections |-> connections,
   reconnectAttempts |-> reconnectAttempts, reconnectTimers |-> reconnectTimers,
   pingTimeouts |-> pingTimeouts, connected |-> connected, initPc |-> initPc,
   failRun |-> failRun, exhaustions |-> exhaustions, fatalSignals |-> fatalSignals,
   lastDelay |-> lastDelay, shutdown |-> shutdown]

setConn(c) ==
  /\ sockets' = c.sockets
  /\ connections' = c.connections
  /\ reconnectAttempts' = c.reconnectAttempts
  /\ reconnectTimers' = c.reconnectTimers
  /\ pingTimeouts' = c.pingTimeouts
  /\ connected' = c.connected
  /\ initPc' = c.initPc
  /\ failRun' = c.failRun
  /\ exhaustions' = c.exhaustions
  /\ fatalSignals' = c.fatalSignals
  /\ lastDelay' = c.lastDelay
  /\ shutdown' = c.shutdown

\* The slot a new socket of `name` takes: the lowest one that holds no socket
\* or a closed one.
freeSlots(c, name) ==
  {k \in 1..MaxSockets : c.sockets[name][k].readyState \in {"NONE", "CLOSED"}}
freeSlot(c, name) == CHOOSE k \in freeSlots(c, name) : \A m \in freeSlots(c, name) : k <= m

\* A faulty connect: the counter is set to 0 for the first socket only.
createSocket_resetOnce(c, name, awaited) ==
  [c EXCEPT !.sockets[name][freeSlot(c, name)] =
              [readyState |-> "CONNECTING", opened |-> FALSE, awaited |-> awaited,
               byTimer |-> ~awaited, auth |-> "none", sent |-> <<>>],
            !.connections[name] = freeSlot(c, name),
            !.reconnectAttempts[name] = IF @ = Undef THEN 0 ELSE @]

\* new WebSocket(url); this.connections[name] = ws;
\* this.reconnectAttempts[name] = 0      (lines 80-83 and 118-121)
\* `awaited`: the promise of this call is the one initConnections awaits.
createSocket(c, name, awaited) ==
  [c EXCEPT !.sockets[name][freeSlot(c, name)] =
              [readyState |-> "CONNECTING", opened |-> FALSE, awaited |-> awaited,
               byTimer |-> ~awaited, auth |-> "none", sent |-> <<>>],
            !.connections[name] = freeSlot(c, name),
            !.reconnectAttempts[name] = 0]

connectPublicWebSocket(c, awaited) == createSocket(c, "public", awaited)

\* A faulty connect: the private socket is created whatever the credentials.
connectPrivateWebSocket_always(c, awaited) == createSocket(c, "private", awaited)

\* Without credentials connectPrivateWebSocket returns false at once.
connectPrivateWebSocket(c, awaited) ==
  IF ~hasCredentials THEN c ELSE createSocket(c, "private", awaited)

\* setupPingInterval: the old interval, if any, is cleared and one is started.
setupPingInterval(c, name) == [c EXCEPT !.pingTimeouts[name] = TRUE]

\* send: on the socket this.connections[name] names, and only if it is open.
send(c, name, msg) ==
  LET k == c.connections[name]
  IN IF k = 0 THEN c
     ELSE IF c.sockets[name][k].readyState # "OPEN" THEN c
     ELSE [c EXCEPT !.sockets[name][k].sent = Append(@, msg)]

\* for symbol of symbols, for timeframe of config.timeframes:
\*   `kline.${timeframe}.${symbol}`
klineTopics ==
  [i \in 1..(Len(SymbolList) * Len(TimeframeList)) |->
     <<"kline", TimeframeList[((i - 1) % Len(TimeframeList)) + 1],
       SymbolList[((i - 1) \div Len(TimeframeList)) + 1]>>]
orderbookTopics == [i \in 1..Len(SymbolList) |-> <<"orderbook", Depth, SymbolList[i]>>]
tickerTopics == [i \in 1..Len(SymbolList) |-> <<"tickers", SymbolList[i]>>]

subscribeToKlines(c) == send(c, "public", [op |-> "subscribe", args |-> klineTopics])
\* A faulty subscription: the order-book topics are subscribed twice.
subscribeToOrderbooks_twice(c) ==
  send(send(c, "public", [op |-> "subscribe", args |-> orderbookTopics]),
       "public", [op |-> "subscribe", args |-> orderbookTopics])
subscribeToOrderbooks(c) == send(c, "public", [op |-> "subscribe", args |-> orderbookTopics])
\* A faulty replay: tickers are subscribed on the first socket only.
subscribeToTickers_firstSocketOnly(c) ==
  IF c.connections["public"] # 0 /\ c.sockets["public"][c.connections["public"]].byTimer
  THEN c
  ELSE send(c, "public", [op |-> "subscribe", args |-> tickerTopics])
subscribeToTickers(c) == send(c, "public", [op |-> "subscribe", args |-> tickerTopics])
subscribeToPrivateTopics(c, topics) ==
  send(c, "private", [op |-> "subscribe", args |-> [i \in 1..Len(topics) |-> <<topics[i]>>]])

\* this.reconnectDelay * Math.pow(1.5, attempts), for 0 <= attempts <=
\* maxReconnectAttempts.
backoffDelay(attempts) ==
  reconnectDelay * (3 ^ attempts) * (2 ^ (maxReconnectAttempts - attempts))

\* reconnectPublicWebSocket / reconnectPrivateWebSocket: at the maximum only
\* an error line is logged (nothing is emitted, rejected or thrown, so no
\* fatal signal is counted); below it the counter is incremented and a timer
\* is set that calls connect...WebSocket again.
reconnectWebSocket(c, connectionName) ==
  IF c.reconnectAttempts[connectionName] >= maxReconnectAttempts
  THEN c
  ELSE [c EXCEPT !.reconnectAttempts[connectionName] = @ + 1,
                 !.reconnectTimers[connectionName] = @ + 1,
                 !.lastDelay[connectionName] =
                    backoffDelay(c.reconnectAttempts[connectionName] + 1),
                 !.failRun[connectionName] = @ + 1]

reconnectPublicWebSocket(c) == reconnectWebSocket(c, "public")
reconnectPrivateWebSocket(c) == reconnectWebSocket(c, "private")

\* What initConnections does once the promise it awaits is settled.
\* After the public connect it calls connectPrivateWebSocket, which either
\* returns false at once (then connected is set and the call returns true) or
\* creates the private socket, whose promise is awaited next.
\* A faulty initConnections: the private connect is called but not awaited.
afterPublicResolved_noAwait(c) ==
  [connectPrivateWebSocket(c, FALSE) EXCEPT !.connected = TRUE, !.initPc = "resolved"]
afterPublicResolved(c) ==
  LET d == connectPrivateWebSocket(c, TRUE)
  IN IF d.sockets = c.sockets
     THEN [d EXCEPT !.connected = TRUE, !.initPc = "resolved"]
     ELSE [d EXCEPT !.initPc = "private"]
afterPrivateResolved(c) == [c EXCEPT !.connected = TRUE, !.initPc = "resolved"]

\* resolve(true) / reject(error) of the promise of the socket in `slot`: it
\* matters only for the promise initConnections is awaiting.
resolveSocket(c, name, slot) ==
  IF ~c.sockets[name][slot].awaited THEN c
  ELSE LET d == [c EXCEPT !.sockets[name][slot].awaited = FALSE]
       IN IF name = "public" THEN afterPublicResolved(d) ELSE afterPrivateResolved(d)
\* A faulty initConnections: a rejected public connect is logged and the
\* private connect is made all the same.
rejectSocket_thenPrivate(c, name, slot) ==
  IF ~c.sockets[name][slot].awaited THEN c
  ELSE [connectPrivateWebSocket([c EXCEPT !.sockets[name][slot].awaited = FALSE], FALSE)
          EXCEPT !.initPc = "rejected"]
rejectSocket(c, name, slot) ==
  IF ~c.sockets[name][slot].awaited THEN c
  ELSE [c EXCEPT !.sockets[name][slot].awaited = FALSE, !.initPc = "rejected"]

\* ws.on('open') of the public socket.
onPublicOpen(c, slot) ==
  resolveSocket(
    subscribeToTickers(subscribeToOrderbooks(subscribeToKlines(
      setupPingInterval(c, "public")))),
    "public", slot)

\* A faulty open handler: the private topics are subscribed along with auth.
onPrivateOpen_subscribes(c, slot) ==
  subscribeToPrivateTopics(
    [c EXCEPT !.sockets["private"][slot].sent = Append(@, [op |-> "auth", args |-> <<>>]),
              !.sockets["private"][slot].auth = "sent"],
    PrivateTopics)

\* A faulty open handler: the heartbeat is started along with auth.
onPrivateOpen_pings(c, slot) ==
  setupPingInterval(
    [c EXCEPT !.sockets["private"][slot].sent = Append(@, [op |-> "auth", args |-> <<>>]),
              !.sockets["private"][slot].auth = "sent"],
    "private")

\* ws.on('open') of the private socket: the auth operation is sent on it.
onPrivateOpen(c, slot) ==
  [c EXCEPT !.sockets["private"][slot].sent = Append(@, [op |-> "auth", args |-> <<>>]),
            !.sockets["private"][slot].auth = "sent"]

\* ws.on('message') of the private socket for an `auth` reply.
onAuthReply(c, slot, success) ==
  IF success
  THEN resolveSocket(
         subscribeToPrivateTopics(setupPingInterval(
           [c EXCEPT !.sockets["private"][slot].auth = "ok"], "private"),
           PrivateTopics),
         "private", slot)
  ELSE rejectSocket([c EXCEPT !.sockets["private"][slot].auth = "failed"],
                    "private", slot)

\* A faulty error handler: it schedules a reconnect as the close handler does.
onError_reconnects(c, name, slot) ==
  reconnectWebSocket(IF ~c.connected THEN rejectSocket(c, name, slot) ELSE c, name)

\* ws.on('error'): logged; the promise is rejected unless connected is set.
onError(c, name, slot) ==
  IF ~c.connected THEN rejectSocket(c, name, slot) ELSE c

\* ws.on('close'): the ping interval of the name is cleared and the
\* reconnect of the name is called.
onClose(c, name) ==
  LET d == [c EXCEPT !.pingTimeouts[name] = FALSE]
  IN IF name = "public" THEN reconnectPublicWebSocket(d)
     ELSE reconnectPrivateWebSocket(d)

\* ----------------------------------------------------------------- frames
orderbookFrame(symbol, type, ts, b, a) ==
  [op |-> NoVal, topic |-> <<"orderbook", Depth, symbol>>, type |-> type, ts |-> ts,
   data |-> [present |-> TRUE, b |-> b, a |-> a, ts |-> 0]]

\* The level lists the frames of the model carry.  A snapshot side: empty,
\* one level, two levels in book order, two levels in the opposite order, the
\* same price twice, a level of quantity 0.  A delta side: no array, empty,
\* every single pair, and two lists of two pairs.
BidPairs == {"100", "101"} \X {"0", "1", "2"}
AskPairs == {"102"} \X {"0", "1"}
SnapshotBids ==
  {NotArray, Array(<<>>), Array(<<<<"100", "1">>>>),
   Array(<<<<"101", "2">>, <<"100", "1">>>>),
   Array(<<<<"100", "1">>, <<"101", "2">>>>),
   Array(<<<<"100", "1">>, <<"100", "2">>>>),
   Array(<<<<"101", "0">>, <<"100", "1">>>>)}
SnapshotAsks == {NotArray, Array(<<>>), Array(<<<<"102", "1">>>>)}
DeltaBids ==
  {NotArray, Array(<<>>)} \cup {Array(<<p>>) : p \in BidPairs}
  \cup {Array(<<<<"101", "1">>, <<"100", "2">>>>), Array(<<<<"100", "0">>, <<"101", "0">>>>)}
DeltaAsks == {NotArray, Array(<<>>)} \cup {Array(<<p>>) : p \in AskPairs}

OrderbookFrames ==
  {orderbookFrame("BTCUSDT", "snapshot", ts, b, a) :
     ts \in {1, MaxTs}, b \in SnapshotBids, a \in SnapshotAsks}
  \cup
  {orderbookFrame("BTCUSDT", "delta", MaxTs, b, a) : b \in DeltaBids, a \in DeltaAsks}
  \cup
  {orderbookFrame("ETHUSDT", "delta", 1, Array(<<<<"100", "1">>>>), NotArray)}

\* A V5 kline bar: its start and its fields as numerals; `v` picks one of
\* two payloads.
rawKline(start, v) ==
  [start |-> start, t |-> Undef, timestamp |-> Undef,
   open |-> IF v = 1 THEN "1" ELSE "2", high |-> "2", low |-> "1",
   close |-> IF v = 1 THEN "2" ELSE "1", volume |-> IF v = 1 THEN "50" ELSE "52",
   turnover |-> IF v = 1 THEN NoVal ELSE "100",
   o |-> NoVal, h |-> NoVal, l |-> NoVal, c |-> NoVal, v |-> NoVal, V |-> NoVal]

klineFrame(symbol, timeframe, type, kind, items) ==
  [op |-> NoVal, topic |-> <<"kline", timeframe, symbol>>, type |-> type, ts |-> 1,
   data |-> [present |-> TRUE, kind |-> kind, items |-> items]]

\* Kline frames: for BTCUSDT on timeframe "1" every bar, as an array of one
\* (with the first payload) or as a bare object (with the second); for the
\* other series one bar, but for ETHUSDT on timeframe "3" two bars, the
\* second without its volume; and a snapshot of one bar for BTCUSDT on
\* timeframe "1".
KlineFrames ==
  {klineFrame("BTCUSDT", "1", "delta", "array", <<rawKline(t, 1)>>) : t \in 1..MaxBarTs}
  \cup
  {klineFrame("BTCUSDT", "1", "delta", "object", <<rawKline(t, 2)>>) : t \in 1..MaxBarTs}
  \cup
  {klineFrame(key[1], key[2], "delta", "array", <<rawKline(1, 2)>>) :
     key \in SeriesKeys \ {<<"BTCUSDT", "1">>, <<"ETHUSDT", "3">>}}
  \cup
  {klineFrame("ETHUSDT", "3", "delta", "array",
              <<rawKline(1, 2), [rawKline(2, 2) EXCEPT !.volume = NoVal]>>)}
  \cup
  {klineFrame("BTCUSDT", "1", "snapshot", "array", <<rawKline(1, 1)>>)}

tickerFrame(symbol, lastPrice, bid1Price, ask1Price, volume24h, rest) ==
  [op |-> NoVal, topic |-> <<"tickers", symbol>>, type |-> "delta", ts |-> 1,
   data |-> [present |-> TRUE, lastPrice |-> lastPrice, bid1Price |-> bid1Price,
             ask1Price |-> ask1Price, volume24h |-> volume24h,
             highPrice24h |-> IF rest THEN "103" ELSE NoVal,
             lowPrice24h |-> IF rest THEN "100" ELSE NoVal,
             turnover24h |-> IF rest THEN "102" ELSE NoVal,
             price24hPcnt |-> IF rest THEN "1" ELSE NoVal,
             bid1Size |-> IF rest THEN "2" ELSE NoVal,
             ask1Size |-> IF rest THEN "1" ELSE NoVal]]

\* Ticker frames: for BTCUSDT every choice of lastPrice, bid1Price, ask1Price
\* and volume24h being there or not, with the other fields missing, and one
\* frame that has every field; for ETHUSDT one frame.
TickerFrames ==
  {tickerFrame("BTCUSDT", lp, bid, ask, vol, FALSE) :
     lp \in {NoVal, "100"}, bid \in {NoVal, "50"}, ask \in {NoVal, "52"},
     vol \in {NoVal, "1", "2"}}
  \cup {tickerFrame("BTCUSDT", "101", "100", "102", "2", TRUE),
        tickerFrame("ETHUSDT", NoVal, "50", "52", NoVal, FALSE)}

\* What lastMsg keeps of a frame.  A frame is kept whole, except that a level
\* list of an order-book delta for a symbol that has a stored book is kept
\* only when it is a single removal pair (quantity "0"); of any other such
\* list only the length is kept.
sideDigest(x) ==
  [arr |-> x.arr, len |-> Len(x.items),
   items |-> IF Len(x.items) = 1 /\ x.items[1][2] = "0" THEN x.items ELSE <<>>]
sideWhole(x) == [arr |-> x.arr, len |-> Len(x.items), items |-> x.items]
frameDigest(message) ==
  IF message.topic # <<>> /\ message.topic[1] = "orderbook" /\ message.type = "delta"
  THEN IF orderbooks[message.topic[3]].exists
       THEN [message EXCEPT !.data.b = sideDigest(@), !.data.a = sideDigest(@)]
       ELSE [message EXCEPT !.data.b = sideWhole(@), !.data.a = sideWhole(@)]
  ELSE message

\* The size, before the frame is handled, of the store it addresses.
storeSize(message) ==
  IF message.topic = <<>> THEN 0
  ELSE IF message.topic[1] = "orderbook" /\ Len(message.topic) >= 3
  THEN IF orderbooks[message.topic[3]].exists
       THEN Len(orderbooks[message.topic[3]].bids) + Len(orderbooks[message.topic[3]].asks)
       ELSE 0
  ELSE IF message.topic[1] = "kline" /\ Len(message.topic) >= 3
  THEN Len(klines[<<message.topic[3], message.topic[2]>>].bars)
  ELSE 0

\* ------------------------------------------------ handlers and exceptions
\* The text of a `message` event, by what JSON.parse makes of it: "unparsable"
\* (a SyntaxError), "null", "number", "numericTopic" (an object whose topic is
\* a number and whose data is an object) or "object" (an object in the shape
\* of the frames above, `message`).
rawData(kind, message) == [kind |-> kind, message |-> message]

\* A faulty catch block: the error is thrown on.
catchError_rethrow(r) == r

\* A catch block of the message handlers: the error is logged and the
\* handler completes.
catchError(r) == [r EXCEPT !.thrown = FALSE]

\* emit(name, payload) runs the listeners inside the call: a listener's
\* exception is thrown out of emit.
emitThrows(events, listenerThrows) == listenerThrows /\ events # <<>>

\* The try block of handlePublicMessage.  JSON.parse throws on text that is
\* not JSON; message.op throws on null; message.topic.split throws on a topic
\* that is not a string.  processKlineData and processOrderbookData catch
\* what is thrown inside them (the listener's exception included),
\* processTickerData has no catch of its own.
dispatched(message, r, listenerThrows) ==
  LET own == message.topic # <<>> /\ message.topic[1] \in {"kline", "orderbook"}
      t == [thrown |-> emitThrows(r.emitted, listenerThrows)]
  IN [klines |-> r.klines, orderbooks |-> r.orderbooks, tickers |-> r.tickers,
      emitted |-> r.emitted,
      thrown |-> IF own THEN catchError(t).thrown ELSE t.thrown]
handlePublicMessageTry(data, now, listenerThrows) ==
  IF data.kind \in {"unparsable", "null", "numericTopic"}
  THEN [klines |-> klines, orderbooks |-> orderbooks, tickers |-> tickers,
        emitted |-> <<>>, thrown |-> TRUE]
  ELSE IF data.kind = "number"
  THEN [klines |-> klines, orderbooks |-> orderbooks, tickers |-> tickers,
        emitted |-> <<>>, thrown |-> FALSE]
  ELSE dispatched(data.message, handlePublicMessage(data.message, now), listenerThrows)

raisedInTry(t) == t.thrown

\* A faulty catch block: after an exception the ticker store is dropped.
handlePublicData_dropsTickers(data, now, listenerThrows) ==
  IF raisedInTry(handlePublicMessageTry(data, now, listenerThrows))
  THEN [catchError(handlePublicMessageTry(data, now, listenerThrows))
          EXCEPT !.tickers = [s \in Symbols |-> NoTicker]]
  ELSE handlePublicMessageTry(data, now, listenerThrows)

\* handlePublicMessage(data), the listener of the public socket's `message`.
handlePublicData(data, now, listenerThrows) ==
  catchError(handlePublicMessageTry(data, now, listenerThrows))

privateEvent(name, data) == [name |-> name, symbol |-> NoVal, data |-> data]

\* A faulty validation: an empty array passes.
processPrivateData_anyArray(topic, data) ==
  IF IsArray(data) THEN <<privateEvent(topic, data.items)>> ELSE <<>>

\* processExecutionData / processPositionData / processOrderData: the data
\* is emitted under the topic's name if it is a non-empty array.
processPrivateData(topic, data) ==
  IF IsArray(data) /\ Len(data.items) > 0 THEN <<privateEvent(topic, data.items)>>
  ELSE <<>>

\* ws.close() of the socket this.connections[name] refers to.
closeConnection(c, name) ==
  LET k == c.connections[name]
  IN IF k = 0 THEN c
     ELSE IF c.sockets[name][k].readyState \in {"OPEN", "CONNECTING"}
     THEN [c EXCEPT !.sockets[name][k].readyState = "CLOSING"]
     ELSE c

\* The try block of handlePrivateMessage.
handlePrivateMessageTry(c, data, listenerThrows) ==
  LET same == [c |-> c, emitted |-> <<>>, thrown |-> FALSE]
  IN IF data.kind \in {"unparsable", "null"} THEN [same EXCEPT !.thrown = TRUE]
     ELSE IF data.kind \in {"number", "numericTopic"} THEN same
     ELSE LET message == data.message IN
          IF message.op = "pong" THEN same
          ELSE IF message.op = "auth"
          THEN IF message.success THEN same
               ELSE [same EXCEPT !.c = closeConnection(c, "private")]
          ELSE IF message.op = "subscribe" THEN same
          ELSE IF message.topic # <<>> /\ message.data.present
          THEN IF Len(message.topic) = 1
                    /\ message.topic[1] \in {"execution", "position", "order"}
               THEN LET e == processPrivateData(message.topic[1], message.data.payload)
                    IN [c |-> c, emitted |-> e, thrown |-> emitThrows(e, listenerThrows)]
               ELSE same
          ELSE same

\* A faulty handler: while the public reconnect timer is pending, private
\* frames are set aside.
handlePrivateMessage_waits(c, data, listenerThrows) ==
  IF c.reconnectTimers["public"] > 0
  THEN [c |-> c, emitted |-> <<>>, thrown |-> FALSE]
  ELSE catchError(handlePrivateMessageTry(c, data, listenerThrows))

handlePrivateMessage(c, data, listenerThrows) ==
  catchError(handlePrivateMessageTry(c, data, listenerThrows))

\* The try block of the private socket's `message` listener: an `auth` reply
\* is handled here, anything else goes to handlePrivateMessage.
onPrivateMessageTry(c, slot, data, listenerThrows) ==
  IF data.kind \in {"unparsable", "null"}
  THEN [c |-> c, emitted |-> <<>>, thrown |-> TRUE]
  ELSE IF data.kind = "object" /\ data.message.op = "auth"
  THEN [c |-> onAuthReply(c, slot, data.message.success), emitted |-> <<>>,
        thrown |-> FALSE]
  ELSE handlePrivateMessage(c, data, listenerThrows)

onPrivateMessage(c, slot, data, listenerThrows) ==
  catchError(onPrivateMessageTry(c, slot, data, listenerThrows))

\* A faulty loop body: the ping interval is left running.
closeOne_keepsPing(c, name) == closeConnection(c, name)

\* closeAll: every socket this.connections holds is closed if it is open or
\* connecting, and the ping interval of its name is cleared.  close() on a
\* connecting socket aborts the handshake, which raises the socket's `error`
\* event; the `close` events follow as steps of their own.  Reconnect timers
\* are not touched.
closeOne(c, name) ==
  LET k == c.connections[name]
  IN IF k = 0 THEN c
     ELSE LET d == [closeConnection(c, name) EXCEPT !.pingTimeouts[name] = FALSE]
          IN IF c.sockets[name][k].readyState = "CONNECTING" THEN onError(d, name, k)
             ELSE d
closeAll(c) == [closeOne(closeOne(c, "public"), "private") EXCEPT !.shutdown = TRUE]

\* Frames of the private stream.
privateFrame(op, topic, present, payload) ==
  [op |-> op, topic |-> topic, success |-> FALSE,
   data |-> [present |-> present, payload |-> payload]]
authFrame(success) ==
  [op |-> "auth", topic |-> <<>>, success |-> success,
   data |-> [present |-> FALSE, payload |-> NotArray]]

\* What the frame-fault specification feeds: text that does not parse, null,
\* a number, an object with a numeric topic, and objects: replies, frames
\* without data, frames with data of the wrong type, well-formed frames.
NoFrame == privateFrame(NoVal, <<>>, FALSE, NotArray)
FaultKinds == {rawData(k, NoFrame) : k \in {"unparsable", "null", "number", "numericTopic"}}
PublicData ==
  FaultKinds
  \cup {rawData("object", m) :
          m \in {privateFrame("pong", <<>>, FALSE, NotArray),
                 privateFrame("subscribe", <<>>, FALSE, NotArray),
                 [tickerFrame("BTCUSDT", "101", "100", "102", "2", TRUE)
                    EXCEPT !.op = "pong"],
                 [orderbookFrame("BTCUSDT", "snapshot", 1, Array(<<<<"100", "1">>>>),
                                 Array(<<<<"102", "1">>>>)) EXCEPT !.op = "subscribe"],
                 privateFrame(NoVal, <<"tickers", "BTCUSDT">>, FALSE, NotArray),
                 privateFrame(NoVal, <<"liquidation", "BTCUSDT">>, TRUE, NotArray),
                 tickerFrame("BTCUSDT", NoVal, NoVal, NoVal, NoVal, FALSE),
                 tickerFrame("BTCUSDT", "101", "100", "102", "2", TRUE),
                 klineFrame("BTCUSDT", "1", "delta", "array", <<rawKline(1, 1)>>),
                 orderbookFrame("BTCUSDT", "snapshot", 1, Array(<<<<"100", "1">>>>), NotArray),
                 orderbookFrame("BTCUSDT", "snapshot", 1, Array(<<<<"100", "1">>>>),
                                Array(<<<<"102", "1">>>>)),
                 tickerFrame("ETHUSDT", NoVal, "50", "52", NoVal, FALSE),
                 orderbookFrame("ETHUSDT", "delta", 1, Array(<<<<"100", "1">>>>), NotArray)}}
PrivateData ==
  FaultKinds
  \cup {rawData("object", m) :
          m \in {privateFrame("pong", <<>>, FALSE, NotArray),
                 privateFrame("subscribe", <<>>, FALSE, NotArray),
                 privateFrame("pong", <<"execution">>, TRUE, Array(<<"e1">>)),
                 privateFrame("subscribe", <<"order">>, TRUE, Array(<<"o1", "o2">>)),
                 privateFrame(NoVal, <<"execution">>, FALSE, NotArray),
                 privateFrame(NoVal, <<"execution">>, TRUE, Array(<<"e1">>)),
                 privateFrame(NoVal, <<"position">>, TRUE, NotArray),
                 privateFrame(NoVal, <<"position">>, TRUE, Array(<<>>)),
                 privateFrame(NoVal, <<"order">>, TRUE, Array(<<"o1", "o2">>)),
                 privateFrame(NoVal, <<"wallet">>, TRUE, Array(<<"w1">>))}}
AuthData == {rawData("object", authFrame(success)) : success \in BOOLEAN}

\* Whether an exception was raised inside the handler whose try block gave t.
raisedIn(t, listenerThrows) == t.thrown \/ emitThrows(t.emitted, listenerThrows)

\* What a public message handler leaves: the stores, the events, and whether
\* an exception left the handler.
setMarket(r) ==
  /\ klines' = r.klines
  /\ orderbooks' = r.orderbooks
  /\ tickers' = r.tickers
  /\ emitted' = r.emitted
  /\ escaped' = r.thrown

\* What a private message handler leaves.
setPrivate(r) ==
  /\ setConn(r.c)
  /\ emitted' = r.emitted
  /\ escaped' = r.thrown

\* What lastMsg keeps of a `message` event: the connection, what the text
\* parses to, the frame's operation and topic, and whether an exception was
\* raised while it was handled.
dataDigest(name, data, raised) ==
  [op |-> "data", topic |-> <<>>, on |-> name, kind |-> data.kind,
   frameOp |-> data.message.op, frameTopic |-> data.message.topic,
   frameData |-> data.message.data, raised |-> raised]

\* ---------------------------------------------------------------- actions
HistoryKeys ==
  [i \in 1..(Len(SymbolList) * Len(TimeframeList)) |->
     <<SymbolList[((i - 1) \div Len(TimeframeList)) + 1],
       TimeframeList[((i - 1) % Len(TimeframeList)) + 1]>>]

HistFail == [ok |-> FALSE, list |-> <<>>]
\* A bar as ByBitAPI.getKlines returns it (no turnover field).
histBar(t) == [timestamp |-> t, open |-> 1, high |-> 2, low |-> 1, close |-> 2,
               volume |-> 50]
\* The list getKlines returns: HistLimit bars, the newest first.
HistOk == [ok |-> TRUE, list |-> [i \in 1..HistLimit |-> histBar(HistLimit + 1 - i)]]
\* What the historical loads can give: nothing at all; or, for timeframe "1",
\* the list or a failure.
NoHistory == [key \in SeriesKeys |-> {HistFail}]
SomeHistory ==
  [key \in SeriesKeys |-> IF key[2] = "1" THEN {HistFail, HistOk} ELSE {HistFail}]

Init ==
  /\ klinesDefined = FALSE
  /\ klines = [key \in SeriesKeys |-> NoSeries]
  /\ orderbooks = [s \in Symbols |-> NoBook]
  /\ tickers = [s \in Symbols |-> NoTicker]
  /\ emitted = <<>>
  /\ lastMsg = NoMsg
  /\ prevSize = 0
  /\ fed = [key \in SeriesKeys |-> {}]
  /\ hasCredentials \in BOOLEAN
  /\ initPc = "idle"
  /\ histIdx = 0
  /\ sockets = [n \in ConnNames |-> [k \in 1..MaxSockets |-> NoSocket]]
  /\ connections = [n \in ConnNames |-> 0]
  /\ reconnectAttempts = [n \in ConnNames |-> Undef]
  /\ reconnectTimers = [n \in ConnNames |-> 0]
  /\ pingTimeouts = [n \in ConnNames |-> FALSE]
  /\ connected = FALSE
  /\ failRun = [n \in ConnNames |-> 0]
  /\ exhaustions = [n \in ConnNames |-> 0]
  /\ fatalSignals = [n \in ConnNames |-> 0]
  /\ lastDelay = [n \in ConnNames |-> 0]
  /\ shutdown = FALSE
  /\ escaped = FALSE

\* initConnections(symbols) is called: the first historical load is awaited.
InitConnections ==
  /\ initPc = "idle"
  /\ initPc' = "history"
  /\ emitted' = <<>>
  /\ lastMsg' = NoMsg
  /\ prevSize' = 0
  /\ escaped' = FALSE
  /\ UNCHANGED <<klinesDefined, klines, orderbooks, tickers, fed>>
  /\ UNCHANGED <<hasCredentials, histIdx, sockets, connections, reconnectAttempts,
                 reconnectTimers, pingTimeouts, connected, failRun, exhaustions,
                 fatalSignals, lastDelay, shutdown>>

\* One awaited fetchHistoricalKlines of initConnections completes with a
\* result out of results[key]; after the last one connectPublicWebSocket is called and awaited.
FetchHistoricalKlines(results) ==
  /\ initPc = "history"
  /\ \E result \in results[HistoryKeys[histIdx + 1]] :
       LET key == HistoryKeys[histIdx + 1]
           r == fetchHistoricalKlines(key[1], key[2], result)
           last == histIdx + 1 = Len(HistoryKeys)
       IN /\ klinesDefined' = r.klinesDefined
          /\ klines' = r.klines
          /\ emitted' = r.emitted
          /\ fed' = IF r.emitted = <<>> THEN fed
                    ELSE [fed EXCEPT ![key] =
                            {result.list[i].timestamp : i \in 1..Len(result.list)}]
          /\ histIdx' = histIdx + 1
          /\ IF last
             THEN setConn([connectPublicWebSocket(connState, TRUE)
                             EXCEPT !.initPc = "public"])
             ELSE setConn(connState)
  /\ lastMsg' = NoMsg
  /\ prevSize' = 0
  /\ escaped' = FALSE
  /\ UNCHANGED <<orderbooks, tickers, hasCredentials>>

\* The socket in `slot` of `name` opens.
SocketOpen(name, slot) ==
  /\ sockets[name][slot].readyState = "CONNECTING"
  /\ LET c == [connState EXCEPT !.sockets[name][slot].readyState = "OPEN",
                                !.sockets[name][slot].opened = TRUE,
                                !.failRun[name] = 0]
     IN setConn(IF name = "public" THEN onPublicOpen(c, slot)
                ELSE onPrivateOpen(c, slot))
  /\ emitted' = <<>>
  /\ lastMsg' = NoMsg
  /\ prevSize' = 0
  /\ escaped' = FALSE
  /\ UNCHANGED <<klinesDefined, klines, orderbooks, tickers, fed, hasCredentials, histIdx>>

\* A frame arrives on an open public socket and handlePublicMessage runs;
\* `nows` are the readings Date.now() can give meanwhile.
PublicFrame(frames, nows) ==
  /\ \E slot \in 1..MaxSockets : sockets["public"][slot].readyState = "OPEN"
  /\ \E message \in frames, now \in nows :
       LET r == handlePublicMessage(message, now)
       IN /\ klines' = r.klines
          /\ orderbooks' = r.orderbooks
          /\ tickers' = r.tickers
          /\ emitted' = r.emitted
          /\ lastMsg' = frameDigest(message)
          /\ prevSize' = storeSize(message)
          /\ escaped' = FALSE
          /\ fed' = IF message.topic # <<>> /\ message.topic[1] = "kline"
                    THEN [fed EXCEPT ![<<message.topic[3], message.topic[2]>>] =
                            @ \cup {message.data.items[i].start :
                                      i \in 1..Len(message.data.items)}]
                    ELSE fed
  /\ UNCHANGED klinesDefined
  /\ UNCHANGED connVars

\* An `auth` reply arrives on an open private socket that has sent auth.
AuthReply(slot) ==
  /\ sockets["private"][slot].readyState = "OPEN"
  /\ sockets["private"][slot].auth = "sent"
  /\ \E success \in BOOLEAN : setConn(onAuthReply(connState, slot, success))
  /\ emitted' = <<>>
  /\ lastMsg' = NoMsg
  /\ prevSize' = 0
  /\ escaped' = FALSE
  /\ UNCHANGED <<klinesDefined, klines, orderbooks, tickers, fed, hasCredentials, histIdx>>

\* The socket in `slot` of `name` fails: its `error` event (its `close` event
\* follows as a step of its own).
SocketError(name, slot) ==
  /\ sockets[name][slot].readyState \in {"CONNECTING", "OPEN"}
  /\ setConn(onError([connState EXCEPT !.sockets[name][slot].readyState = "CLOSING"],
                     name, slot))
  /\ emitted' = <<>>
  /\ lastMsg' = NoMsg
  /\ prevSize' = 0
  /\ escaped' = FALSE
  /\ UNCHANGED <<klinesDefined, klines, orderbooks, tickers, fed, hasCredentials, histIdx>>

\* The `close` event of the socket in `slot` of `name`: after an error, or
\* when the peer closes an open socket; nothing of a closed socket matters
\* any more but that it is closed.  (A connection is followed up to the close
\* that ends a run of maxReconnectAttempts failed reconnects and no further.)
SocketClose(name, slot) ==
  /\ sockets[name][slot].readyState \in {"OPEN", "CLOSING"}
  /\ exhaustions[name] = 0
  /\ LET exhausted == ~sockets[name][slot].opened /\ failRun[name] >= maxReconnectAttempts
         c == [connState EXCEPT !.sockets[name][slot] =
                                   [NoSocket EXCEPT !.readyState = "CLOSED"],
                                !.exhaustions[name] = IF exhausted THEN @ + 1 ELSE @]
     IN setConn(onClose(c, name))
  /\ emitted' = <<>>
  /\ lastMsg' = NoMsg
  /\ prevSize' = 0
  /\ escaped' = FALSE
  /\ UNCHANGED <<klinesDefined, klines, orderbooks, tickers, fed, hasCredentials, histIdx>>

\* A reconnect timer of `name` fires: connect...WebSocket is called again
\* (its promise is not the one initConnections awaits).
ReconnectTimer(name) ==
  /\ reconnectTimers[name] > 0
  /\ freeSlots(connState, name) # {}
  /\ LET c == [connState EXCEPT !.reconnectTimers[name] = @ - 1]
     IN setConn(IF name = "public" THEN connectPublicWebSocket(c, FALSE)
                ELSE connectPrivateWebSocket(c, FALSE))
  /\ emitted' = <<>>
  /\ lastMsg' = NoMsg
  /\ prevSize' = 0
  /\ escaped' = FALSE
  /\ UNCHANGED <<klinesDefined, klines, orderbooks, tickers, fed, hasCredentials, histIdx>>

\* The probes sent on a socket.
pingsOf(ws) == Cardinality({i \in 1..Len(ws.sent) : ws.sent[i].op = "ping"})

\* The interval of setupPingInterval(name) ticks: {op: 'ping'} is sent on the
\* socket this.connections[name] names if it is open, else nothing is done.
PingTick(name) ==
  /\ pingTimeouts[name]
  /\ LET k == connections[name]
     IN IF k # 0 /\ sockets[name][k].readyState = "OPEN"
        THEN /\ pingsOf(sockets[name][k]) < MaxPings
             /\ setConn([connState EXCEPT !.sockets[name][k].sent =
                                            Append(@, [op |-> "ping", args |-> <<>>])])
        ELSE setConn(connState)
  /\ emitted' = <<>>
  /\ lastMsg' = [op |-> "ping", topic |-> <<>>, on |-> name]
  /\ prevSize' = 0
  /\ escaped' = FALSE
  /\ UNCHANGED <<klinesDefined, klines, orderbooks, tickers, fed, hasCredentials, histIdx>>

\* Order-book frames carry their own timestamp: the clock is not read.
OrderbookFrame == PublicFrame(OrderbookFrames, {1})
KlineFrame == PublicFrame(KlineFrames, {1})
TickerFrame == PublicFrame(TickerFrames, 1..MaxTs)

\* A `message` event of an open public socket, whatever its text, with
\* listeners that throw or do not.
PublicMessage ==
  /\ \E slot \in 1..MaxSockets : sockets["public"][slot].readyState = "OPEN"
  /\ \E data \in PublicData, listenerThrows \in BOOLEAN :
       /\ setMarket(handlePublicData(data, 1, listenerThrows))
       /\ lastMsg' = dataDigest("public", data,
                                raisedIn(handlePublicMessageTry(data, 1, listenerThrows),
                                         listenerThrows))
  /\ prevSize' = 0
  /\ UNCHANGED <<klinesDefined, fed>>
  /\ UNCHANGED connVars

\* A `message` event of an open private socket; an `auth` reply comes only
\* after auth was sent and before it was answered.
PrivateMessage(slot) ==
  /\ sockets["private"][slot].readyState = "OPEN"
  /\ \E data \in PrivateData \cup AuthData, listenerThrows \in BOOLEAN :
       /\ data \in AuthData => sockets["private"][slot].auth = "sent"
       /\ setPrivate(onPrivateMessage(connState, slot, data, listenerThrows))
       /\ lastMsg' = dataDigest("private", data,
                       raisedIn(onPrivateMessageTry(connState, slot, data, listenerThrows),
                                listenerThrows))
  /\ prevSize' = 0
  /\ UNCHANGED <<klinesDefined, klines, orderbooks, tickers, fed, hasCredentials, histIdx>>

\* closeAll() is called, once, at any time after initConnections has settled.
CloseAll ==
  /\ ~shutdown
  /\ initPc \in {"resolved", "rejected"}
  /\ setConn(closeAll(connState))
  /\ emitted' = <<>>
  /\ lastMsg' = NoMsg
  /\ prevSize' = 0
  /\ escaped' = FALSE
  /\ UNCHANGED <<klinesDefined, klines, orderbooks, tickers, fed, hasCredentials, histIdx>>

\* closeAll() is called again, in any state after its first call.
CloseAllAgain ==
  /\ shutdown
  /\ setConn(closeAll(connState))
  /\ emitted' = <<>>
  /\ lastMsg' = [op |-> "closeAll", topic |-> <<>>]
  /\ prevSize' = 0
  /\ escaped' = FALSE
  /\ UNCHANGED <<klinesDefined, klines, orderbooks, tickers, fed, hasCredentials, histIdx>>

\* A well-formed ticker frame arrives on an open public socket.
LateTickerFrames == {tickerFrame("BTCUSDT", "101", "100", "102", "2", TRUE)}
LateFrame == PublicFrame(LateTickerFrames, {1})

\* An order-book delta whose one bid has a price that parseFloat cannot read
\* arrives on an open public socket.
UnparsableLevelFrames ==
  {orderbookFrame("ETHUSDT", "delta", 1, Array(<<<<"x", "1">>>>), NotArray)}
UnparsableLevelFrame ==
  /\ storeSize(CHOOSE m \in UnparsableLevelFrames : TRUE) < MaxBookLevels
  /\ PublicFrame(UnparsableLevelFrames, {1})

\* ------------------------------------------------------- topic strings
\* Strings are sequences of characters here, so that building a topic and
\* splitting it are computed as the code computes them.
classText(class) ==
  CASE class = "kline" -> <<"k", "l", "i", "n", "e">>
    [] class = "orderbook" -> <<"o", "r", "d", "e", "r", "b", "o", "o", "k">>
    [] class = "tickers" -> <<"t", "i", "c", "k", "e", "r", "s">>

\* A number in a template literal: its decimal digits (numbers below 1000).
decimal(n) ==
  LET digit(k) == <<"0", "1", "2", "3", "4", "5", "6", "7", "8", "9">>[k + 1]
  IN IF n < 10 THEN <<digit(n)>>
     ELSE IF n < 100 THEN <<digit(n \div 10), digit(n % 10)>>
     ELSE <<digit(n \div 100), digit((n \div 10) % 10), digit(n % 10)>>

\* `kline.${timeframe}.${symbol}`, `orderbook.${config.orderbook.depth}.${symbol}`
\* and `tickers.${symbol}`; param is the timeframe (a string), the depth (a
\* number) or nothing.
topicText(class, param, symbol) ==
  IF class = "kline" THEN classText(class) \o <<".">> \o param \o <<".">> \o symbol
  ELSE IF class = "orderbook"
  THEN classText(class) \o <<".">> \o decimal(param) \o <<".">> \o symbol
  ELSE classText(class) \o <<".">> \o symbol

\* message.topic.split('.')
split(str) ==
  LET dots == {i \in 1..Len(str) : str[i] = "."}
      n == Cardinality(dots)
      pos == [k \in 0..(n + 1) |->
                IF k = 0 THEN 0
                ELSE IF k = n + 1 THEN Len(str) + 1
                ELSE CHOOSE i \in dots : Cardinality({j \in dots : j < i}) = k - 1]
  IN [k \in 1..(n + 1) |-> SubSeq(str, pos[k - 1] + 1, pos[k] - 1)]

\* A faulty reading of the parts: the symbol is taken from the second part.
topicFields_second(parts) ==
  [class |-> parts[1], param |-> IF Len(parts) >= 3 THEN parts[2] ELSE <<>>,
   symbol |-> IF Len(parts) >= 2 THEN parts[2] ELSE <<>>]

\* What the handlers read of the parts: dataType = topicParts[0]; for kline
\* and orderbook topicParts[1] is the timeframe or depth and topicParts[2]
\* the symbol; for tickers topicParts[1] is the symbol.
topicFields(parts) ==
  [class |-> parts[1],
   param |-> IF parts[1] = classText("tickers") \/ Len(parts) < 3 THEN <<>> ELSE parts[2],
   symbol |-> IF parts[1] = classText("tickers")
              THEN (IF Len(parts) >= 2 THEN parts[2] ELSE <<>>)
              ELSE (IF Len(parts) >= 3 THEN parts[3] ELSE <<>>)]

\* The symbols, timeframes and depths topics are built for: symbol names of
\* up to MaxSymbolLen letters and digits, the kline intervals "1", "3", "15"
\* and "D", the depths 1, 50, 200 and MaxDepth.
TopicInputs ==
  LET SymbolTexts == UNION {[1..n -> {"B", "T", "1"}] : n \in 1..MaxSymbolLen}
      TimeframeTexts == {<<"1">>, <<"3">>, <<"1", "5">>, <<"D">>}
      Depths == {1, 50, 200, MaxDepth}
      input(class, param, sym) ==
        [op |-> "topicInput", topic |-> <<>>, class |-> class, param |-> param,
         symbol |-> sym, text |-> <<>>, fields |-> <<>>]
  IN {input("kline", tf, sym) : tf \in TimeframeTexts, sym \in SymbolTexts}
     \cup {input("orderbook", d, sym) : d \in Depths, sym \in SymbolTexts}
     \cup {input("tickers", <<>>, sym) : sym \in SymbolTexts}

\* Topic strings on their own: lastMsg holds a class, a parameter and a symbol.
InitTopic ==
  /\ klinesDefined = FALSE
  /\ klines = [key \in SeriesKeys |-> NoSeries]
  /\ orderbooks = [s \in Symbols |-> NoBook]
  /\ tickers = [s \in Symbols |-> NoTicker]
  /\ emitted = <<>>
  /\ lastMsg \in TopicInputs
  /\ prevSize = 0
  /\ fed = [key \in SeriesKeys |-> {}]
  /\ hasCredentials = FALSE
  /\ initPc = "idle"
  /\ histIdx = 0
  /\ sockets = [n \in ConnNames |-> [k \in 1..MaxSockets |-> NoSocket]]
  /\ connections = [n \in ConnNames |-> 0]
  /\ reconnectAttempts = [n \in ConnNames |-> Undef]
  /\ reconnectTimers = [n \in ConnNames |-> 0]
  /\ pingTimeouts = [n \in ConnNames |-> FALSE]
  /\ connected = FALSE
  /\ failRun = [n \in ConnNames |-> 0]
  /\ exhaustions = [n \in ConnNames |-> 0]
  /\ fatalSignals = [n \in ConnNames |-> 0]
  /\ lastDelay = [n \in ConnNames |-> 0]
  /\ shutdown = FALSE
  /\ escaped = FALSE

\* The subscribe functions build the topic string.
BuildTopic ==
  /\ lastMsg.op = "topicInput"
  /\ lastMsg' = [lastMsg EXCEPT !.op = "topicBuilt",
                                !.text = topicText(lastMsg.class, lastMsg.param,
                                                   lastMsg.symbol)]
  /\ UNCHANGED <<klinesDefined, klines, orderbooks, tickers, emitted, prevSize, fed,
                 escaped>>
  /\ UNCHANGED connVars

\* A handler splits the topic of a frame that carries the string.
SplitTopic ==
  /\ lastMsg.op = "topicBuilt"
  /\ lastMsg' = [lastMsg EXCEPT !.op = "topicSplit",
                                !.fields = topicFields(split(lastMsg.text))]
  /\ UNCHANGED <<klinesDefined, klines, orderbooks, tickers, emitted, prevSize, fed,
                 escaped>>
  /\ UNCHANGED connVars

NextTopic ==
  \/ BuildTopic
  \/ SplitTopic
SpecTopic == InitTopic /\ [][NextTopic]_vars

\* ---------------------------------------------------------- specifications
InitPublicOnly == Init /\ ~hasCredentials

\* The order books: the engine comes up without historical bars and without
\* credentials, then order-book frames arrive.
NextBook ==
  \/ InitConnections
  \/ FetchHistoricalKlines(NoHistory)
  \/ \E slot \in 1..MaxSockets : SocketOpen("public", slot)
  \/ OrderbookFrame
SpecBook == InitPublicOnly /\ [][NextBook]_vars

\* The candle series: historical loads that succeed or fail, then kline frames.
NextKline ==
  \/ InitConnections
  \/ FetchHistoricalKlines(SomeHistory)
  \/ \E slot \in 1..MaxSockets : SocketOpen("public", slot)
  \/ KlineFrame
SpecKline == InitPublicOnly /\ [][NextKline]_vars

\* The tickers.
NextTicker ==
  \/ InitConnections
  \/ FetchHistoricalKlines(NoHistory)
  \/ \E slot \in 1..MaxSockets : SocketOpen("public", slot)
  \/ TickerFrame
SpecTicker == InitPublicOnly /\ [][NextTicker]_vars

\* The connections: both sockets, their failures and their reconnects.
NextConn ==
  \/ InitConnections
  \/ FetchHistoricalKlines(NoHistory)
  \/ \E name \in ConnNames, slot \in 1..MaxSockets : SocketOpen(name, slot)
  \/ \E slot \in 1..MaxSockets : AuthReply(slot)
  \/ \E name \in ConnNames, slot \in 1..MaxSockets : SocketError(name, slot)
  \/ \E name \in ConnNames, slot \in 1..MaxSockets : SocketClose(name, slot)
  \/ \E name \in ConnNames : ReconnectTimer(name)
SpecConn == Init /\ [][NextConn]_vars

\* The heartbeat: the connections as above and the ticks of their intervals.
NextPing ==
  \/ NextConn
  \/ \E name \in ConnNames : PingTick(name)
SpecPing == Init /\ [][NextPing]_vars

\* Frame faults: both sockets come up, then any text arrives on them.
NextFault ==
  \/ InitConnections
  \/ FetchHistoricalKlines(SomeHistory)
  \/ \E name \in ConnNames, slot \in 1..MaxSockets : SocketOpen(name, slot)
  \/ PublicMessage
  \/ \E slot \in 1..MaxSockets : PrivateMessage(slot)
SpecFault == Init /\ [][NextFault]_vars

\* Shutdown: the connections and their reconnects, and one call of closeAll.
NextShutdown ==
  \/ NextConn
  \/ CloseAll
SpecShutdown == Init /\ [][NextShutdown]_vars

\* Shutdown with traffic: as above, and frames on whatever socket is open.
NextLate ==
  \/ NextShutdown
  \/ LateFrame
SpecLate == Init /\ [][NextLate]_vars

\* Traffic during reconnects: the connection lifecycle, ticker frames on the
\* public socket and any text on the private socket.
NextBackoff ==
  \/ NextConn
  \/ LateFrame
  \/ \E slot \in 1..MaxSockets : PrivateMessage(slot)
SpecBackoff == Init /\ [][NextBackoff]_vars

\* Shutdown twice: the connection lifecycle and any number of calls of closeAll.
NextTwice ==
  \/ NextShutdown
  \/ CloseAllAgain
SpecTwice == Init /\ [][NextTwice]_vars

\* The order books with frames that are delivered more than once, the delta
\* with the unreadable price among them.
NextDup ==
  \/ NextBook
  \/ UnparsableLevelFrame
SpecDup == InitPublicOnly /\ [][NextDup]_vars

\* Everything together.
Next ==
  \/ NextConn
  \/ FetchHistoricalKlines(SomeHistory)
  \/ OrderbookFrame
  \/ KlineFrame
  \/ TickerFrame
  \/ PublicMessage
  \/ \E slot \in 1..MaxSockets : PrivateMessage(slot)
  \/ CloseAll
  \/ CloseAllAgain
  \/ LateFrame
  \/ UnparsableLevelFrame
  \/ \E name \in ConnNames : PingTick(name)
Spec == Init /\ [][Next]_vars

\* ======================================================== order-book claims
isOrderbookMsg(m) == m.topic # <<>> /\ m.topic[1] = "orderbook"
isDeltaFor(m, s) == isOrderbookMsg(m) /\ m.type = "delta" /\ m.topic[3] = s
isSnapshotFor(m, s) == isOrderbookMsg(m) /\ m.type = "snapshot" /\ m.topic[3] = s

StrictlyDescending(side) == \A i \in 1..(Len(side) - 1) : side[i].price > side[i + 1].price
StrictlyAscending(side) == \A i \in 1..(Len(side) - 1) : side[i].price < side[i + 1].price
NoZeroLevel(side) == \A i \in 1..Len(side) : side[i].quantity # 0

\* How often the level L stands in a side.
CountLevel(side, L) == Cardinality({i \in 1..Len(side) : side[i] = L})
LevelsOf(side) == {side[i] : i \in 1..Len(side)}
\* The same levels, whatever the order.
SameLevels(x, y) ==
  \A L \in LevelsOf(x) \cup LevelsOf(y) : CountLevel(x, L) = CountLevel(y, L)

\* C1: after every delta for a symbol the stored book of the symbol has
\* bids in strictly descending and asks in strictly ascending price order
\* (so no price twice on a side) and no level of quantity zero.
C1_BookWellFormedAfterDelta ==
  \A s \in Symbols :
    isDeltaFor(lastMsg, s) =>
      /\ orderbooks[s].exists
      /\ StrictlyDescending(orderbooks[s].bids)
      /\ StrictlyAscending(orderbooks[s].asks)
      /\ NoZeroLevel(orderbooks[s].bids)
      /\ NoZeroLevel(orderbooks[s].asks)

\* A delta whose only pair is (price, "0"), on the bid side or on the ask side.
isBidRemoval(m, s, price) ==
  /\ isDeltaFor(m, s)
  /\ m.data.b.items = <<<<price, "0">>>>
  /\ m.data.a.len = 0
isAskRemoval(m, s, price) ==
  /\ isDeltaFor(m, s)
  /\ m.data.a.items = <<<<price, "0">>>>
  /\ m.data.b.len = 0

HasLevelAt(side, p) == \E i \in 1..Len(side) : side[i].price = p
\* `after` holds the levels of `before` whose price is not p, and no other.
RemovedExactly(before, after, p) ==
  \A L \in LevelsOf(before) \cup LevelsOf(after) :
    CountLevel(after, L) = IF L.price = p THEN 0 ELSE CountLevel(before, L)

\* C2: a delta whose only pair is (p, 0) on one side of a book that holds
\* a level at p on that side removes the level at p; every other level of that
\* side and every level of the other side stays, with its price and quantity.
C2_ZeroQuantityRemovesOnlyThatLevel ==
  [][\A s \in Symbols, tok \in DOMAIN Numeral :
       /\ (/\ isBidRemoval(lastMsg', s, tok)
           /\ orderbooks[s].exists
           /\ HasLevelAt(orderbooks[s].bids, Numeral[tok]))
          => /\ RemovedExactly(orderbooks[s].bids, orderbooks'[s].bids, Numeral[tok])
             /\ SameLevels(orderbooks[s].asks, orderbooks'[s].asks)
       /\ (/\ isAskRemoval(lastMsg', s, tok)
           /\ orderbooks[s].exists
           /\ HasLevelAt(orderbooks[s].asks, Numeral[tok]))
          => /\ RemovedExactly(orderbooks[s].asks, orderbooks'[s].asks, Numeral[tok])
             /\ SameLevels(orderbooks[s].bids, orderbooks'[s].bids)]_vars

\* Witness of C2: a removal of the bid at 100 has just taken one level out of
\* a book that keeps another bid and an ask.
C2_Witness ==
  /\ isBidRemoval(lastMsg, "BTCUSDT", "100")
  /\ orderbooks["BTCUSDT"].exists
  /\ Len(orderbooks["BTCUSDT"].bids) + Len(orderbooks["BTCUSDT"].asks) = prevSize - 1
  /\ Len(orderbooks["BTCUSDT"].bids) >= 1
  /\ Len(orderbooks["BTCUSDT"].asks) >= 1

\* A frame that processOrderbookData applies: any delta, and a snapshot whose
\* b and a are arrays.
isAppliedFor(m, s) ==
  \/ isDeltaFor(m, s)
  \/ isSnapshotFor(m, s) /\ m.data.b.arr /\ m.data.a.arr

\* C3: every applied snapshot or delta for a symbol emits exactly one
\* `orderbook` event, for that symbol, and it carries the whole stored book.
C3_ApplyEmitsWholeBook ==
  \A s \in Symbols :
    isAppliedFor(lastMsg, s) =>
      /\ orderbooks[s].exists
      /\ emitted = <<[name |-> "orderbook", symbol |-> s, data |-> orderbooks[s]]>>

\* Witness of C3: a delta of one pair has been applied and the event carries
\* a book of more levels than the delta had.
C3_Witness ==
  /\ isDeltaFor(lastMsg, "BTCUSDT")
  /\ lastMsg.data.b.len = 1
  /\ lastMsg.data.a.len = 0
  /\ Len(emitted) = 1
  /\ emitted[1].name = "orderbook"
  /\ Len(emitted[1].data.bids) >= 2
  /\ Len(emitted[1].data.asks) >= 1

\* ============================================================ kline claims
TheSeries == <<"BTCUSDT", "1">>

isKlineMsgFor(m, key) ==
  /\ m.op = NoVal
  /\ m.topic = <<"kline", key[2], key[1]>>

AscendingTs(bars) ==
  \A i \in 1..Len(bars), j \in 1..Len(bars) :
    i < j => bars[i].timestamp < bars[j].timestamp

\* The n largest members of a finite set of integers.
Largest(S, n) == {x \in S : Cardinality({y \in S : y > x}) < n}

C5_DeltaReplacesOrAddsOne ==
  [][\A key \in SeriesKeys :
       (isKlineMsgFor(lastMsg', key) /\ Len(lastMsg'.data.items) = 1) =>
         LET old == klines[key].bars
             new == klines'[key].bars
             k == formatKline(lastMsg'.data.items[1], 1)
             at == {i \in 1..Len(old) : old[i].timestamp = k.timestamp}
             added == {old[i] : i \in 1..Len(old)} \cup {k}
             kept == {b \in added :
                        b.timestamp \in Largest({a.timestamp : a \in added}, KlineCap)}
         IN IF at # {}
            THEN /\ Len(new) = Len(old)
                 /\ \A i \in 1..Len(old) : new[i] = IF i \in at THEN k ELSE old[i]
            ELSE /\ Len(new) = IF Len(old) < KlineCap THEN Len(old) + 1 ELSE KlineCap
                 /\ {new[i] : i \in 1..Len(new)} = kept
                 /\ AscendingTs(new)]_vars

\* C6: feeding a series more than the cap of bars with distinct timestamps,
\* in any order, leaves exactly the cap bars with the largest timestamps, in
\* ascending order.
C6_KeepsLargestCapBars ==
  \A key \in SeriesKeys :
    Cardinality(fed[key]) > KlineCap =>
      /\ klines[key].exists
      /\ Len(klines[key].bars) = KlineCap
      /\ {klines[key].bars[i].timestamp : i \in 1..Len(klines[key].bars)}
           = Largest(fed[key], KlineCap)
      /\ AscendingTs(klines[key].bars)

\* =========================================================== ticker claims
isTickerMsgFor(m, symbol) ==
  /\ m.op = NoVal
  /\ m.topic = <<"tickers", symbol>>

\* The record an update of `symbol` starts from.
tickerBefore(symbol) ==
  IF tickers[symbol].exists THEN tickers[symbol] ELSE defaultTicker(symbol, 0)

\* The fields of the record that are copied from a field of the update.
CopiedFields ==
  {<<"highPrice24h", "highPrice24h">>, <<"lowPrice24h", "lowPrice24h">>,
   <<"volume24h", "volume24h">>, <<"turnover24h", "turnover24h">>,
   <<"price24hPcnt", "price24hPcnt">>, <<"bidPrice", "bid1Price">>,
   <<"askPrice", "ask1Price">>, <<"bidSize", "bid1Size">>,
   <<"askSize", "ask1Size">>}

C8_SingleSideAlwaysUsed ==
  [][\A symbol \in Symbols :
       isTickerMsgFor(lastMsg', symbol) =>
         LET d == lastMsg'.data
             p == tickers'[symbol].lastPrice
         IN /\ Truthy(d.lastPrice) => p = Numeral[d.lastPrice]
            /\ (~Truthy(d.lastPrice) /\ Truthy(d.bid1Price) /\ Truthy(d.ask1Price))
                 => 2 * p = Numeral[d.bid1Price] + Numeral[d.ask1Price]
            /\ (~Truthy(d.lastPrice) /\ Truthy(d.bid1Price) /\ ~Truthy(d.ask1Price))
                 => p = Numeral[d.bid1Price]
            /\ (~Truthy(d.lastPrice) /\ ~Truthy(d.bid1Price) /\ Truthy(d.ask1Price))
                 => p = Numeral[d.ask1Price]]_vars

\* C8: the last price after an update is the explicit last price; else the
\* midpoint of bid and ask when both are there; else, when one of them is
\* there, that one if the stored last price is 0 and the stored last price
\* otherwise; else the stored last price.  A first update with bid 50 and
\* ask 52 alone gives last price 51 and leaves volume24h at 0.
C8_LastPricePrecedence ==
  [][\A symbol \in Symbols :
       isTickerMsgFor(lastMsg', symbol) =>
         LET d == lastMsg'.data
             q == tickerBefore(symbol).lastPrice
             p == tickers'[symbol].lastPrice
             one == (Truthy(d.bid1Price) /\ ~Truthy(d.ask1Price))
                    \/ (~Truthy(d.bid1Price) /\ Truthy(d.ask1Price))
             side == IF Truthy(d.bid1Price) THEN d.bid1Price ELSE d.ask1Price
         IN /\ Truthy(d.lastPrice) => p = Numeral[d.lastPrice]
            /\ (~Truthy(d.lastPrice) /\ Truthy(d.bid1Price) /\ Truthy(d.ask1Price))
                 => 2 * p = Numeral[d.bid1Price] + Numeral[d.ask1Price]
            /\ (~Truthy(d.lastPrice) /\ one /\ q = 0) => p = Numeral[side]
            /\ (~Truthy(d.lastPrice) /\ one /\ q # 0) => p = q
            /\ (~Truthy(d.lastPrice) /\ ~Truthy(d.bid1Price) /\ ~Truthy(d.ask1Price))
                 => p = q
            /\ (~tickers[symbol].exists /\ ~Truthy(d.lastPrice) /\ ~Truthy(d.volume24h)
                /\ d.bid1Price = "50" /\ d.ask1Price = "52")
                 => (p = 51 /\ tickers'[symbol].volume24h = 0)]_vars

\* An update with the bid alone has arrived for a record whose last price
\* was set before: the bid is stored, the last price is the earlier one.
C8_Witness ==
  /\ isTickerMsgFor(lastMsg, "BTCUSDT")
  /\ ~Truthy(lastMsg.data.lastPrice)
  /\ lastMsg.data.bid1Price = "50"
  /\ ~Truthy(lastMsg.data.ask1Price)
  /\ tickers["BTCUSDT"].exists
  /\ tickers["BTCUSDT"].bidPrice = 50
  /\ tickers["BTCUSDT"].lastPrice = 100

\* ======================================================= connection claims
\* C9: in a run of failed reconnects of a connection (no socket of it opens)
\* at most maxReconnectAttempts reconnect timers are scheduled.
C9_ReconnectsBounded ==
  \A name \in ConnNames : failRun[name] <= maxReconnectAttempts

\* C10: when a connection has had maxReconnectAttempts reconnects fail in a
\* row, a fatal signal is surfaced to the caller, once, and never earlier.
C10_ExhaustionRaisesFatalOnce ==
  \A name \in ConnNames : fatalSignals[name] = exhaustions[name]

\* The delays 7500, 11250, 16875 and 25312.5 ms, doubled.
TwiceExpectedDelay == <<15000, 22500, 33750, 50625>>

\* C11: in a run of failed reconnects of a connection, the delay set before
\* the n-th reconnect, n = 1..4, is 5000 * 1.5^n ms: 7500, 11250, 16875,
\* 25312.5.
C11_BackoffDelays ==
  \A name \in ConnNames :
    failRun[name] \in 1..4 =>
      2 * lastDelay[name] = TwiceExpectedDelay[failRun[name]] * DelayScale

\* C12: on no private socket, first or reconnected, is a subscribe operation
\* sent before the successful authentication reply has arrived on that
\* socket (and so after the auth operation was sent on it).
C12_NoSubscribeBeforeAuth ==
  \A slot \in 1..MaxSockets :
    LET ws == sockets["private"][slot]
    IN \A i \in 1..Len(ws.sent) :
         ws.sent[i].op = "subscribe" =>
           /\ ws.auth = "ok"
           /\ \E j \in 1..(i - 1) : ws.sent[j].op = "auth"

\* A private socket created by a reconnect timer has authenticated and
\* subscribed.
C12_Witness ==
  \E slot \in 1..MaxSockets :
    LET ws == sockets["private"][slot]
    IN /\ ws.byTimer
       /\ ws.readyState = "OPEN"
       /\ ws.auth = "ok"
       /\ \E i \in 1..Len(ws.sent) : ws.sent[i].op = "subscribe"

\* C13: a private socket whose authentication reply had success = false is
\* closed by the engine at once: none is left open unauthenticated.
C13_FailedAuthClosesSocket ==
  \A slot \in 1..MaxSockets :
    sockets["private"][slot].auth = "failed" =>
      sockets["private"][slot].readyState \notin {"CONNECTING", "OPEN"}

\* The topics of the subscribe operations sent on a socket.
subscribedTopics(ws) ==
  UNION {{ws.sent[i].args[k] : k \in 1..Len(ws.sent[i].args)} :
           i \in {j \in 1..Len(ws.sent) : ws.sent[j].op = "subscribe"}}

PublicTopicSet ==
  {<<"kline", tf, s>> : tf \in Timeframes, s \in Symbols}
    \cup {<<"orderbook", Depth, s>> : s \in Symbols}
    \cup {<<"tickers", s>> : s \in Symbols}

PrivateTopicSet == {<<"execution">>, <<"position">>, <<"order">>}

\* C14: the topics subscribed on a socket that has opened (public) or
\* authenticated (private) are the configured topic set of its connection,
\* each subscribed once, the same on the socket of the first connect and on
\* the socket of every reconnect.
C14_ReconnectReplaysTopics ==
  \A name \in ConnNames, slot \in 1..MaxSockets :
    LET ws == sockets[name][slot]
        subs == {j \in 1..Len(ws.sent) : ws.sent[j].op = "subscribe"}
        count == IF name = "public" THEN 3 ELSE 1
        topics == IF name = "public" THEN PublicTopicSet ELSE PrivateTopicSet
        done == IF name = "public" THEN ws.opened ELSE ws.auth = "ok"
    IN (ws.readyState = "OPEN" /\ done) =>
         /\ subscribedTopics(ws) = topics
         /\ Cardinality(subs) = count
         /\ \A i, j \in subs : i # j =>
              \A k \in 1..Len(ws.sent[i].args), l \in 1..Len(ws.sent[j].args) :
                ws.sent[i].args[k] # ws.sent[j].args[l]

\* Both connections are on sockets created by reconnect timers, and both
\* have subscribed.
C14_Witness ==
  /\ \E slot \in 1..MaxSockets :
       LET ws == sockets["public"][slot]
       IN ws.byTimer /\ ws.readyState = "OPEN" /\ ws.opened
            /\ subscribedTopics(ws) = PublicTopicSet
  /\ \E slot \in 1..MaxSockets :
       LET ws == sockets["private"][slot]
       IN ws.byTimer /\ ws.readyState = "OPEN" /\ ws.auth = "ok"
            /\ subscribedTopics(ws) = PrivateTopicSet

\* C15: no `message` event, whatever its text and whether or not a listener
\* throws, lets an exception out of the public or the private message
\* handler, and none makes the engine close a socket: no socket's readyState
\* changes and no reconnect is scheduled in the step that handles it.
C15_NoFrameEscapesOrCloses ==
  [][lastMsg'.op = "data" =>
       /\ escaped' = FALSE
       /\ \A name \in ConnNames, slot \in 1..MaxSockets :
            sockets'[name][slot].readyState = sockets[name][slot].readyState
       /\ connections' = connections
       /\ reconnectTimers' = reconnectTimers]_vars

\* A frame during whose handling an exception was raised has been handled on
\* the private socket, which is still open.
C15_Witness ==
  /\ lastMsg.op = "data"
  /\ lastMsg.on = "private"
  /\ lastMsg.raised
  /\ lastMsg.kind = "object"
  /\ emitted # <<>>
  /\ \E slot \in 1..MaxSockets : sockets["private"][slot].readyState = "OPEN"

\* C16: an order-book frame that has neither a `b` nor an `a` array is
\* dropped: the stored books, levels and timestamps, are as they were before
\* the frame, and no orderbook event is emitted.
C16_MalformedBookFrameDropped ==
  [][(isOrderbookMsg(lastMsg') /\ ~lastMsg'.data.b.arr /\ ~lastMsg'.data.a.arr) =>
       (orderbooks' = orderbooks /\ emitted' = <<>>)]_vars

\* C17: a bar that lacks one of open, high, low, close, volume is dropped: no
\* stored bar has a field that was parsed from a missing value.
C17_MalformedBarDropped ==
  \A key \in SeriesKeys :
    \A i \in 1..Len(klines[key].bars) :
      LET k == klines[key].bars[i]
      IN k.open # NaN /\ k.high # NaN /\ k.low # NaN /\ k.close # NaN /\ k.volume # NaN

\* C18: initConnections gets past its public connect only in a step in which
\* the public socket is open and has been sent the subscribe operations, and
\* it resolves only after that: with credentials, in a step in which the
\* private socket has its successful authentication reply and has been sent
\* its subscribe operation; without credentials, in the step of the public
\* open.
C18_ResolvesAfterSubscriptions ==
  [][/\ (initPc = "public" /\ initPc' \in {"private", "resolved"}) =>
          \E slot \in 1..MaxSockets :
            /\ sockets'["public"][slot].readyState = "OPEN"
            /\ subscribedTopics(sockets'["public"][slot]) = PublicTopicSet
     /\ (initPc # "resolved" /\ initPc' = "resolved") =>
          IF hasCredentials
          THEN /\ initPc = "private"
               /\ \E slot \in 1..MaxSockets :
                    /\ sockets'["private"][slot].readyState = "OPEN"
                    /\ sockets'["private"][slot].auth = "ok"
                    /\ subscribedTopics(sockets'["private"][slot]) = PrivateTopicSet
          ELSE initPc = "public"
     /\ (initPc # "private" /\ initPc' = "private") => initPc = "public"
     /\ connected' => initPc' = "resolved"]_vars

\* initConnections has resolved with credentials configured.
C18_Witness ==
  /\ hasCredentials
  /\ initPc = "resolved"
  /\ connected

\* C19: without credentials no private socket is ever created, nothing is
\* sent on the private connection, no private reconnect is scheduled, and
\* initConnections resolves true in the step in which the public socket
\* opens and is subscribed.
C19_NoCredentialsPublicOnly ==
  [][~hasCredentials =>
       /\ \A slot \in 1..MaxSockets : sockets'["private"][slot] = NoSocket
       /\ connections'["private"] = 0
       /\ reconnectTimers'["private"] = 0
       /\ reconnectAttempts'["private"] = Undef
       /\ pingTimeouts'["private"] = FALSE
       /\ (initPc = "public" /\ \E slot \in 1..MaxSockets :
             /\ sockets["public"][slot].readyState = "CONNECTING"
             /\ sockets'["public"][slot].readyState = "OPEN") =>
            /\ initPc' = "resolved"
            /\ connected'
            /\ \E slot \in 1..MaxSockets :
                 subscribedTopics(sockets'["public"][slot]) = PublicTopicSet]_vars

\* Without credentials initConnections has resolved, and the public
\* connection has since gone through a reconnect.
C19_Witness ==
  /\ ~hasCredentials
  /\ initPc = "resolved"
  /\ connected
  /\ \E slot \in 1..MaxSockets :
       sockets["public"][slot].byTimer /\ sockets["public"][slot].readyState = "OPEN"

\* C20: once closeAll has been called no reconnect timer and no ping
\* interval is pending, and no socket is created any more.
C20_ShutdownIsFinal ==
  [][shutdown' =>
       /\ \A name \in ConnNames : reconnectTimers'[name] = 0 /\ ~pingTimeouts'[name]
       /\ \A name \in ConnNames, slot \in 1..MaxSockets :
            sockets'[name][slot].readyState = "CONNECTING" =>
              sockets[name][slot].readyState = "CONNECTING"]_vars

\* C21: once closeAll has been called no step emits an event.
C21_NoEventAfterShutdown == shutdown => emitted = <<>>

\* Nothing of the connection `name` is open or connecting, and its ping
\* interval is not running.
Quiet(ss, pings, name) ==
  /\ \A slot \in 1..MaxSockets : ss[name][slot].readyState \notin {"OPEN", "CONNECTING"}
  /\ ~pings[name]

\* C22: a second call of closeAll, in any state after the first, leaves what
\* the first call leaves: no socket open or connecting, no ping interval
\* running, the pending reconnect timers as they were; called on what the
\* first call left, it changes nothing.
C22_CloseAllIdempotent ==
  [][lastMsg'.op = "closeAll" =>
       /\ \A name \in ConnNames : Quiet(sockets', pingTimeouts', name)
       /\ reconnectTimers' = reconnectTimers
       /\ connections' = connections
       /\ (\A name \in ConnNames : Quiet(sockets, pingTimeouts, name)) =>
            UNCHANGED connVars
       /\ closeAll(closeAll(connState)) = closeAll(connState)]_vars

\* closeAll has been called a second time and has closed a socket that a
\* reconnect had opened since the first call.
C22_Witness ==
  /\ lastMsg.op = "closeAll"
  /\ \E slot \in 1..MaxSockets :
       sockets["public"][slot].byTimer /\ sockets["public"][slot].readyState = "CLOSING"

\* The prices of a payload side are pairwise different.
DistinctPrices(items) ==
  \A i, j \in 1..Len(items) : i # j => ParseFloat(items[i][1]) # ParseFloat(items[j][1])

\* C23: after a snapshot for a symbol, with arrays on both sides and no price
\* twice on a side, the stored book holds exactly the levels of the payload,
\* bids in strictly descending and asks in strictly ascending price order,
\* whatever the order of the payload.
C23_SnapshotReplacesSorted ==
  \A s \in Symbols :
    (/\ isSnapshotFor(lastMsg, s)
     /\ IsArray(lastMsg.data.b) /\ IsArray(lastMsg.data.a)
     /\ DistinctPrices(lastMsg.data.b.items) /\ DistinctPrices(lastMsg.data.a.items)) =>
      /\ orderbooks[s].exists
      /\ SameLevels(orderbooks[s].bids, mapLevels(lastMsg.data.b.items))
      /\ SameLevels(orderbooks[s].asks, mapLevels(lastMsg.data.a.items))
      /\ StrictlyDescending(orderbooks[s].bids)
      /\ StrictlyAscending(orderbooks[s].asks)

\* What a list of [price, quantity] pairs leaves in an empty side: for every
\* price the last pair that names it, unless its quantity is zero.
SeedLevels(x) ==
  IF ~x.arr THEN {}
  ELSE {mapLevels(x.items)[i] :
          i \in {k \in 1..Len(x.items) :
                   /\ ParseFloat(x.items[k][2]) # 0
                   /\ \A m \in (k + 1)..Len(x.items) : x.items[m][1] # x.items[k][1]}}

\* C24: a delta for a symbol that has no stored book creates the book: it
\* holds exactly the delta's levels of non-zero quantity, each once, bids
\* descending and asks ascending, and the orderbook event carrying this book
\* is emitted.
C24_DeltaSeedsBook ==
  [][\A s \in Symbols :
       (isDeltaFor(lastMsg', s) /\ ~orderbooks[s].exists) =>
         /\ orderbooks'[s].exists
         /\ LevelsOf(orderbooks'[s].bids) = SeedLevels(lastMsg'.data.b)
         /\ LevelsOf(orderbooks'[s].asks) = SeedLevels(lastMsg'.data.a)
         /\ StrictlyDescending(orderbooks'[s].bids)
         /\ StrictlyAscending(orderbooks'[s].asks)
         /\ emitted' = <<orderbookEvent(s, orderbooks'[s])>>]_vars

\* The first frame of BTCUSDT was a delta of two bid levels and an ask level:
\* the book holds them in book order.
C24_Witness ==
  /\ isDeltaFor(lastMsg, "BTCUSDT")
  /\ lastMsg.data.b.items = <<<<"101", "1">>, <<"100", "2">>>>
  /\ orderbooks["BTCUSDT"].exists
  /\ Len(orderbooks["BTCUSDT"].bids) = 2
  /\ Len(orderbooks["BTCUSDT"].asks) = 1

\* C25: after a kline snapshot for a series the series holds the bars of the
\* payload and no others: no bar stored before that the payload does not
\* name remains.
C25_KlineSnapshotReplaces ==
  \A key \in SeriesKeys :
    (/\ isKlineMsgFor(lastMsg, key)
     /\ lastMsg.type = "snapshot"
     /\ klinesDefined) =>
      {klines[key].bars[i].timestamp : i \in 1..Len(klines[key].bars)}
        = {lastMsg.data.items[i].start : i \in 1..Len(lastMsg.data.items)}

\* C26: a ticker update without lastPrice, bid1Price and ask1Price is
\* rejected: the ticker records are as they were (none is created) and no
\* event is emitted.
C26_NoPriceTickerRejected ==
  [][\A s \in Symbols :
       (/\ isTickerMsgFor(lastMsg', s)
        /\ ~Truthy(lastMsg'.data.lastPrice)
        /\ ~Truthy(lastMsg'.data.bid1Price)
        /\ ~Truthy(lastMsg'.data.ask1Price)) =>
         (tickers' = tickers /\ emitted' = <<>>)]_vars

\* C27: the reconnect attempt counter of a connection goes back to zero only
\* in a step after which a socket of the connection is open and has been
\* sent the subscriptions of the connection.
C27_CounterResetOnlyOnSuccess ==
  [][\A name \in ConnNames :
       (reconnectAttempts[name] > 0 /\ reconnectAttempts'[name] = 0) =>
         \E slot \in 1..MaxSockets :
           /\ sockets'[name][slot].readyState = "OPEN"
           /\ subscribedTopics(sockets'[name][slot])
                = IF name = "public" THEN PublicTopicSet ELSE PrivateTopicSet]_vars

\* The subscribe operations sent on a socket, in order.
subscribesOf(ws) == SelectSeq(ws.sent, LAMBDA m : m.op = "subscribe")
argSet(m) == {m.args[k] : k \in 1..Len(m.args)}

\* The socket in `slot` of `name` becomes ready in this step: the public
\* socket opens, the private socket gets its successful authentication reply.
becomesReady(name, slot) ==
  IF name = "public"
  THEN sockets[name][slot].readyState = "CONNECTING"
         /\ sockets'[name][slot].readyState = "OPEN"
  ELSE sockets[name][slot].auth = "sent" /\ sockets'[name][slot].auth = "ok"

\* C28 as stated: on every transition of a connection to ready exactly one
\* subscribe operation is sent on it, carrying the full topic set of the
\* connection.
C28_OneSubscribeFullSet ==
  [][\A name \in ConnNames, slot \in 1..MaxSockets :
       becomesReady(name, slot) =>
         LET subs == subscribesOf(sockets'[name][slot])
         IN /\ Len(subs) = 1
            /\ argSet(subs[1]) = IF name = "public" THEN PublicTopicSet
                                 ELSE PrivateTopicSet]_vars

\* C28, amended: on every transition to ready the public connection is sent
\* three subscribe operations, the kline topics, the order-book topics and
\* the ticker topics in this order, each topic once and together the full
\* public topic set; the private connection is sent one subscribe operation
\* with execution, position, order.
C28_ReadySubscribesByClass ==
  [][\A name \in ConnNames, slot \in 1..MaxSockets :
       becomesReady(name, slot) =>
         LET subs == subscribesOf(sockets'[name][slot])
         IN IF name = "public"
            THEN /\ Len(subs) = 3
                 /\ argSet(subs[1]) = {<<"kline", tf, s>> : tf \in Timeframes, s \in Symbols}
                 /\ argSet(subs[2]) = {<<"orderbook", Depth, s>> : s \in Symbols}
                 /\ argSet(subs[3]) = {<<"tickers", s>> : s \in Symbols}
                 /\ \A i \in 1..3 : Len(subs[i].args) = Cardinality(argSet(subs[i]))
            ELSE /\ Len(subs) = 1
                 /\ subs[1].args = <<<<"execution">>, <<"position">>, <<"order">>>>]_vars

\* A reconnected public socket has been sent its three subscribe operations
\* while the private socket of the first connect has been sent its one.
C28_Witness ==
  /\ \E slot \in 1..MaxSockets :
       LET ws == sockets["public"][slot]
       IN ws.byTimer /\ ws.readyState = "OPEN" /\ Len(subscribesOf(ws)) = 3
  /\ \E slot \in 1..MaxSockets :
       LET ws == sockets["private"][slot]
       IN ~ws.byTimer /\ ws.auth = "ok" /\ Len(subscribesOf(ws)) = 1

\* ================================================ frames without effect
KnownClass(name, topic) ==
  IF name = "public" THEN topic[1] \in {"kline", "orderbook", "tickers"}
  ELSE topic \in {<<"execution">>, <<"position">>, <<"order">>}

\* A parsed frame that is a heartbeat reply, a subscribe acknowledgment, or
\* that names a topic of no known class.
isInertFrame(m) ==
  /\ m.op = "data"
  /\ m.kind = "object"
  /\ \/ m.frameOp \in {"pong", "subscribe"}
     \/ m.frameTopic # <<>> /\ ~KnownClass(m.on, m.frameTopic)

\* C30: a frame with op pong, a frame with op subscribe, and a frame of an
\* unknown topic class change no order book, no candle series and no ticker
\* record and emit no event, on either connection; for pong and subscribe
\* this is so also when the frame carries a known topic and data.
C30_RepliesAndUnknownTopicsInert ==
  [][isInertFrame(lastMsg') =>
       /\ orderbooks' = orderbooks
       /\ klines' = klines
       /\ klinesDefined' = klinesDefined
       /\ tickers' = tickers
       /\ emitted' = <<>>]_vars

\* Witness of C30: a frame with op pong that carries the ticker topic of
\* BTCUSDT and a full ticker payload has been handled on the public socket
\* of an engine that has no ticker record of BTCUSDT, and there is still none.
C30_Witness ==
  /\ isInertFrame(lastMsg)
  /\ lastMsg.on = "public"
  /\ lastMsg.frameOp = "pong"
  /\ lastMsg.frameTopic = <<"tickers", "BTCUSDT">>
  /\ ~tickers["BTCUSDT"].exists
  /\ emitted = <<>>

\* ================================================== duplicate delivery
\* C29: an order-book snapshot or delta that is delivered a second time right
\* after it was handled leaves the stored books as the first delivery left
\* them: no level is added, removed or changed.
C29_RedeliveryChangesNothing ==
  [][\A m \in OrderbookFrames \cup UnparsableLevelFrames :
       (/\ lastMsg' = frameDigest(m)
        /\ orderbooks' = processOrderbookData(m, 1).orderbooks)
       => (processOrderbookData(m, 1).orderbooks)' = orderbooks']_vars

\* ======================================================= private stream
PrivateClasses == {<<"execution">>, <<"position">>, <<"order">>}

\* A private data frame: an object without op whose topic is one of the three.
isPrivateDataFrame(m) ==
  /\ m.op = "data"
  /\ m.on = "private"
  /\ m.kind = "object"
  /\ m.frameOp = NoVal
  /\ m.frameTopic \in PrivateClasses

NonEmptyArray(d) == d.present /\ d.payload.arr /\ Len(d.payload.items) > 0

\* C31: a private frame with topic execution, position or order emits one
\* event of the topic's name that carries the payload as it came exactly when
\* the payload is a non-empty array, and no event otherwise; in both cases
\* the order books, the candle series and the tickers stay as they were.
C31_PrivatePayloadPassedThrough ==
  [][isPrivateDataFrame(lastMsg') =>
       /\ emitted' = IF NonEmptyArray(lastMsg'.frameData)
                     THEN <<[name |-> lastMsg'.frameTopic[1], symbol |-> NoVal,
                             data |-> lastMsg'.frameData.payload.items]>>
                     ELSE <<>>
       /\ orderbooks' = orderbooks
       /\ klines' = klines
       /\ klinesDefined' = klinesDefined
       /\ tickers' = tickers]_vars

\* Witness of C31: an order frame with a payload of two elements has been
\* handled and the order event carries the two.
C31_Witness ==
  /\ isPrivateDataFrame(lastMsg)
  /\ lastMsg.frameTopic = <<"order">>
  /\ Len(emitted) = 1
  /\ emitted[1].name = "order"
  /\ emitted[1].data = <<"o1", "o2">>

\* ================================================= isolation of symbols
\* The symbol a topic names: its last part.
Names(topic, s) == topic # <<>> /\ topic[Len(topic)] = s

\* C32: handling one message of the public stream, whatever it is and whether
\* or not an exception is raised while it is handled, leaves the order book,
\* every candle series and the ticker of every symbol its topic does not name
\* as they were.
C32_OtherSymbolsUntouched ==
  [][(lastMsg'.op = "data" /\ lastMsg'.on = "public") =>
       \A s \in Symbols :
         ~Names(lastMsg'.frameTopic, s) =>
           /\ orderbooks'[s] = orderbooks[s]
           /\ tickers'[s] = tickers[s]
           /\ \A tf \in Timeframes : klines'[<<s, tf>>] = klines[<<s, tf>>]]_vars

\* Witness of C32: a ticker frame of BTCUSDT has been handled with a listener
\* that threw, the ticker of BTCUSDT is stored, and ETHUSDT has a ticker, an
\* order book and a candle series.
C32_Witness ==
  /\ lastMsg.op = "data"
  /\ lastMsg.on = "public"
  /\ lastMsg.frameTopic = <<"tickers", "BTCUSDT">>
  /\ lastMsg.raised
  /\ tickers["BTCUSDT"].exists
  /\ tickers["ETHUSDT"].exists
  /\ orderbooks["ETHUSDT"].exists
  /\ klines[<<"ETHUSDT", "1">>].exists

\* ============================================================ heartbeat
\* C34: a probe is sent only on a socket that is open, that is the current
\* socket of its name and, on the private connection, that has been
\* authenticated; and a tick of the heartbeat interval, whether or not a
\* reply to an earlier probe ever came, closes no socket and schedules no
\* reconnect.
C34_PingOnlyWhenReady ==
  [][/\ \A name \in ConnNames, slot \in 1..MaxSockets :
          pingsOf(sockets'[name][slot]) > pingsOf(sockets[name][slot]) =>
            /\ sockets[name][slot].readyState = "OPEN"
            /\ sockets'[name][slot].readyState = "OPEN"
            /\ connections[name] = slot
            /\ name = "private" => sockets[name][slot].auth = "ok"
     /\ lastMsg'.op = "ping" =>
          /\ \A name \in ConnNames, slot \in 1..MaxSockets :
                sockets'[name][slot].readyState = sockets[name][slot].readyState
          /\ reconnectTimers' = reconnectTimers
          /\ reconnectAttempts' = reconnectAttempts
          /\ connections' = connections]_vars

\* Witness of C34: the interval of the private connection has ticked and the
\* authenticated private socket holds the probe, after its auth and its
\* subscribe.
C34_Witness ==
  /\ lastMsg.op = "ping"
  /\ lastMsg.on = "private"
  /\ connections["private"] # 0
  /\ sockets["private"][connections["private"]].readyState = "OPEN"
  /\ sockets["private"][connections["private"]].auth = "ok"
  /\ pingsOf(sockets["private"][connections["private"]]) = 1
  /\ sockets["private"][connections["private"]].byTimer

\* ========================================================= lazy creation
\* C35: a kline frame for a series that is not stored creates the series and
\* emits the kline event, whatever the historical loads gave.
C35_FirstKlineCreatesSeries ==
  [][\A key \in SeriesKeys :
       (isKlineMsgFor(lastMsg', key) /\ ~klines[key].exists) =>
         /\ klines'[key].exists
         /\ Len(emitted') = 1
         /\ emitted'[1].name = "kline"]_vars

\* ========================================================= topic strings
\* C36: splitting a built topic string on '.' gives back what it was built
\* from: the class, the timeframe (for kline) or the depth in decimal (for
\* orderbook), and the symbol.
C36_SplitInvertsBuild ==
  lastMsg.op = "topicSplit" =>
    /\ lastMsg.fields.class = classText(lastMsg.class)
    /\ lastMsg.fields.symbol = lastMsg.symbol
    /\ lastMsg.class = "kline" => lastMsg.fields.param = lastMsg.param
    /\ lastMsg.class = "orderbook" => lastMsg.fields.param = decimal(lastMsg.param)

\* Witness of C36: the topic orderbook.200.BT1 has been built and split.
C36_Witness ==
  /\ lastMsg.op = "topicSplit"
  /\ lastMsg.class = "orderbook"
  /\ lastMsg.param = 200
  /\ lastMsg.symbol = <<"B", "T", "1">>
  /\ Len(lastMsg.text) = 17
  /\ lastMsg.fields.param = <<"2", "0", "0">>

\* ================================================= traffic during backoff
\* No socket of `name` is connecting or open: the connection is down.
Down(ss, name) ==
  \A k \in 1..MaxSockets : ss[name][k].readyState \notin {"CONNECTING", "OPEN"}

\* C37: while the public connection is down with its reconnect timer pending,
\* a private frame with a non-empty payload is handled and its event emitted;
\* while the private connection is down with its timer pending, a ticker
\* frame on the public socket is handled and its event emitted; and neither
\* step touches the pending timers.
C37_BackoffBlocksNothing ==
  [][/\ (/\ isPrivateDataFrame(lastMsg')
         /\ NonEmptyArray(lastMsg'.frameData)
         /\ reconnectTimers["public"] > 0
         /\ Down(sockets, "public"))
        => /\ Len(emitted') = 1
           /\ emitted'[1].name = lastMsg'.frameTopic[1]
           /\ reconnectTimers' = reconnectTimers
     /\ (/\ isTickerMsgFor(lastMsg', "BTCUSDT")
         /\ reconnectTimers["private"] > 0
         /\ Down(sockets, "private"))
        => /\ Len(emitted') = 1
           /\ emitted'[1].name = "ticker"
           /\ reconnectTimers' = reconnectTimers]_vars

\* Witness of C37: the public connection is down and its reconnect timer is
\* pending, and the execution frame that has just arrived on the private
\* socket has been emitted.
C37_Witness ==
  /\ isPrivateDataFrame(lastMsg)
  /\ lastMsg.frameTopic = <<"execution">>
  /\ reconnectTimers["public"] > 0
  /\ Down(sockets, "public")
  /\ Len(emitted) = 1
  /\ emitted[1].name = "execution"

\* ===================================================== reconnect counter
\* A socket of `name` has become closed in this step (its close event ran).
closedNow(name) ==
  \E k \in 1..MaxSockets :
    sockets[name][k].readyState # "CLOSED" /\ sockets'[name][k].readyState = "CLOSED"

\* C38: the reconnect counter of a connection is undefined until the first
\* socket of the connection is created and 0 or 1 from then on; every close
\* event finds it below maxReconnectAttempts, raises it to 1 and sets one
\* timer with the delay reconnectDelay * 1.5.
C38_CounterZeroOrOne ==
  [][\A name \in ConnNames :
       /\ reconnectAttempts'[name] \in {Undef, 0, 1}
       /\ connections'[name] # 0 => reconnectAttempts'[name] \in {0, 1}
       /\ lastDelay'[name] \in {0, backoffDelay(1)}
       /\ closedNow(name) =>
            /\ reconnectAttempts[name] = 0
            /\ reconnectAttempts'[name] = 1
            /\ reconnectTimers'[name] = reconnectTimers[name] + 1
            /\ lastDelay'[name] = backoffDelay(1)]_vars

\* Witness of C38: the public connection has failed to reconnect three times
\* in a row and its counter stands at 1, the delay at reconnectDelay * 1.5.
C38_Witness ==
  /\ failRun["public"] = 3
  /\ reconnectAttempts["public"] = 1
  /\ reconnectTimers["public"] = 1
  /\ lastDelay["public"] = backoffDelay(1)

\* ======================================================= one of each
Live(name) == {k \in 1..MaxSockets : sockets[name][k].readyState \in {"CONNECTING", "OPEN"}}
Closing(name) == {k \in 1..MaxSockets : sockets[name][k].readyState = "CLOSING"}

\* C39: a connection name has at most one socket that is connecting or open
\* and at most one pending reconnect timer, and never both, nor either next
\* to a socket whose close event is still to come; its heartbeat interval
\* runs only for its current socket, which is then open or about to close.
C39_OneSocketOneTimer ==
  \A name \in ConnNames :
    /\ Cardinality(Live(name)) + Cardinality(Closing(name)) + reconnectTimers[name] <= 1
    /\ pingTimeouts[name] =>
         /\ connections[name] # 0
         /\ sockets[name][connections[name]].readyState \in {"OPEN", "CLOSING"}
         /\ sockets[name][connections[name]].opened

\* Witness of C39: after closeAll the public socket has closed, its reconnect
\* timer has fired, and the successor is open with its heartbeat running,
\* alone.
C39_Witness ==
  /\ shutdown
  /\ connections["public"] # 0
  /\ sockets["public"][connections["public"]].readyState = "OPEN"
  /\ sockets["public"][connections["public"]].byTimer
  /\ pingTimeouts["public"]
  /\ Cardinality(Live("public")) = 1
  /\ failRun["public"] = 0

\* ================================================ failed initialisation
\* No private socket has ever been created.
NoPrivate(ss) == \A k \in 1..MaxSockets : ss["private"][k] = NoSocket

\* C40: when the first public socket has an error before it opens,
\* initConnections rejects without having set connected and without a
\* private socket; from then on initConnections stays rejected, connected
\* stays unset and no private socket is ever created; and the close event
\* of a public socket still sets a public reconnect timer.
C40_FailedInitStillReconnects ==
  [][/\ (initPc = "public" /\ initPc' = "rejected") =>
          /\ NoPrivate(sockets')
          /\ ~connected'
          /\ sockets'["public"][connections["public"]].readyState = "CLOSING"
     /\ initPc = "rejected" =>
          /\ initPc' = "rejected"
          /\ connected' = connected
          /\ NoPrivate(sockets) => NoPrivate(sockets')
          /\ closedNow("public") =>
               reconnectTimers'["public"] = reconnectTimers["public"] + 1]_vars

\* Witness of C40: initConnections has rejected on the public failure, and a
\* public socket made by the reconnect timer is open, has its subscriptions
\* and heartbeat, and a ticker event of it has been emitted; connected is
\* unset and there is no private socket although credentials are configured.
C40_Witness ==
  /\ initPc = "rejected"
  /\ hasCredentials
  /\ ~connected
  /\ NoPrivate(sockets)
  /\ connections["public"] # 0
  /\ sockets["public"][connections["public"]].readyState = "OPEN"
  /\ sockets["public"][connections["public"]].byTimer
  /\ Len(sockets["public"][connections["public"]].sent) > 0
  /\ pingTimeouts["public"]
  /\ Len(emitted) > 0
  /\ emitted[1].name = "ticker"
====
